---- MODULE Spec2Model ----
(***************************************************************************)
(* AudioReflector (interface/src/AudioReflector.cpp): early reflections    *)
(* and diffusions of the listener's audio in a voxel world.                *)
(*                                                                         *)
(* Fixed-point units used for the program's floats:                        *)
(*   lengths       centimetres                                             *)
(*   directions    unit vectors scaled by DirOne (1000)                    *)
(*   attenuations  scaled by AttOne (32768 = 1.0)                          *)
(*   delays        1/100 ms  (DelayPerMs units = 1 ms)                     *)
(***************************************************************************)
EXTENDS Integers, Sequences, FiniteSets, TLC

\* ------------------------------------------------------------------------
\* Scales of the fixed-point representation
\* ------------------------------------------------------------------------
AttOne == 32 * 1024
DirOne == 10 * 100
DelayPerMs == 10 * 10
CmPerMeter == 10 * 10

\* ------------------------------------------------------------------------
\* Program constants (part_001:15-26)
\* ------------------------------------------------------------------------
DEFAULT_PRE_DELAY == 2000
DEFAULT_MS_DELAY_PER_METER == 3
MINIMUM_ATTENUATION_TO_REFLECT == 128
DEFAULT_DISTANCE_SCALING_FACTOR == 20
MAXIMUM_DELAY_MS == 2000000
DEFAULT_DIFFUSION_FANOUT == 5
ABSOLUTE_MAXIMUM_BOUNCE_COUNT == 10
SLIGHTLY_SHORT == 999
DEFAULT_ABSORPTION_RATIO == 4096
DEFAULT_DIFFUSION_RATIO == 4096
NUMBER_OF_CHANNELS == 2
SIZEOF_INT16 == 2
MSECS_PER_SECOND == 1000

\* ------------------------------------------------------------------------
\* Bounds of the model
\* ------------------------------------------------------------------------
\* the allocator's limit on the AudioPath objects of one trace
MaxPaths == 60

\* calls of render() in a run
MaxTicks == 2

\* calls of processInboundAudio() in a run
MaxBatches == 1

\* movements of the avatar in a run
MaxMoves == 1

\* changes of the "with diffusions" menu item in a run
MaxToggles == 1

\* calls of Oscilloscope::addSamples() in a run
MaxScopeCalls == 3

\* the largest number of samples one call of addSamples() is given
MaxSamplesAdded == 10

\* Oscilloscope::MAX_SAMPLES_PER_CHANNEL, the size of a channel's region: it is
\* declared in Oscilloscope.h; the model keeps regions of this size
MAX_SAMPLES_PER_CHANNEL == 4

\* calls of the ratio setters in a run
MaxSets == 2

\* ------------------------------------------------------------------------
\* Integer helpers
\* ------------------------------------------------------------------------
Abs(a) == IF a < 0 THEN -a ELSE a

Min(a, b) == IF b < a THEN b ELSE a

Max(a, b) == IF a < b THEN b ELSE a

\* division truncating toward zero, as a float-to-fixed conversion does
Quot(a, b) == IF a >= 0 THEN a \div b ELSE -((-a) \div b)

RECURSIVE SqrtSearch(_, _, _)
SqrtSearch(n, lo, hi) ==
    IF lo >= hi THEN lo
    ELSE LET mid == (lo + hi + 1) \div 2
         IN  IF mid * mid <= n THEN SqrtSearch(n, mid, hi)
             ELSE SqrtSearch(n, lo, mid - 1)

\* floor of the square root
Sqrt(n) == SqrtSearch(n, 0, Min(n, 46340))

RECURSIVE Log2Floor(_)
Log2Floor(n) == IF n < 2 THEN 0 ELSE 1 + Log2Floor(n \div 2)

RECURSIVE Pow2(_)
Pow2(k) == IF k = 0 THEN 1 ELSE 2 * Pow2(k - 1)

\* ------------------------------------------------------------------------
\* glm::vec3
\* ------------------------------------------------------------------------
Vec(x, y, z) == <<x, y, z>>

VecAdd(a, b) == <<a[1] + b[1], a[2] + b[2], a[3] + b[3]>>

VecNeg(a) == <<-a[1], -a[2], -a[3]>>

VecDot(a, b) == a[1] * b[1] + a[2] * b[2] + a[3] * b[3]

VecLength(a) == Sqrt(VecDot(a, a))

\* glm::distance
Distance(a, b) == VecLength(VecAdd(a, VecNeg(b)))

\* direction (scaled by DirOne) times a length in cm
VecScale(d, len) ==
    <<Quot(d[1] * len, DirOne), Quot(d[2] * len, DirOne), Quot(d[3] * len, DirOne)>>

\* glm::normalize, result scaled by DirOne
Normalize(a) ==
    LET l == VecLength(a)
    IN  IF l = 0 THEN a
        ELSE <<Quot(a[1] * DirOne, l), Quot(a[2] * DirOne, l), Quot(a[3] * DirOne, l)>>

\* glm::reflect(I, N) = I - 2 * dot(N, I) * N, both scaled by DirOne
Reflect(i, n) ==
    LET d == Quot(VecDot(n, i), DirOne)
    IN  <<i[1] - Quot(2 * d * n[1], DirOne),
          i[2] - Quot(2 * d * n[2], DirOne),
          i[3] - Quot(2 * d * n[3], DirOne)>>

\* ------------------------------------------------------------------------
\* State
\* ------------------------------------------------------------------------
VARIABLES
    world,              \* the voxel scene behind _voxels->findRayIntersection
    params,             \* _preDelay, _soundMsPerMeter, ... (the tunable members)
    menu,               \* the Menu options the reflector reads
    avatar,             \* _myAvatar: head position and orientation
    _origin, _orientation, _listenerPosition, _withDiffusion,
    _reflections, _diffusionPathCount,
    stats,              \* min/max/average/total delay and attenuation
    _audioPaths, _audiblePoints,
    reflectionLists,    \* the 14 QVector<glm::vec3> members of the old method
    chainsTracedFrom,   \* the origin those 14 lists were traced from, <<>> before any trace
    _mutex,             \* owner of _mutex: "free", "render" or "audio"
    rpc, rlocal,        \* render thread: position in render() and its locals
    apc, alocal,        \* audio thread: position in processInboundAudio()
    sink,               \* the addSpatialAudioToBuffer calls of the current batch
    hitLog,             \* what analyzePathsSingleStep computed at each hit of the last tick
    tick,               \* what the last render() call saw and did
    unlockedAccess,     \* shared members a thread touched while not owning _mutex
    renderTicks,        \* calls of render() so far
    audioBatches,       \* calls of processInboundAudio() so far
    avatarMoves,        \* times the avatar moved or turned so far
    menuToggles,        \* times "with diffusions" was checked or unchecked so far
    tuning,             \* calls of the ratio setters so far, and those turned down
    scope               \* the Oscilloscope the audio samples are also shown on

vars == <<world, params, menu, avatar, _origin, _orientation, _listenerPosition,
          _withDiffusion, _reflections, _diffusionPathCount, stats, _audioPaths,
          _audiblePoints, reflectionLists, chainsTracedFrom, _mutex, rpc, rlocal, apc,
          alocal, sink,
          hitLog, tick, unlockedAccess, renderTicks, audioBatches,
          avatarMoves, menuToggles, tuning, scope>>

\* ------------------------------------------------------------------------
\* BoxFace and the voxel scenes
\* ------------------------------------------------------------------------
BoxFaces == {"MIN_X_FACE", "MAX_X_FACE", "MIN_Y_FACE", "MAX_Y_FACE",
             "MIN_Z_FACE", "MAX_Z_FACE"}

MinFace(axis) == <<"MIN_X_FACE", "MIN_Y_FACE", "MIN_Z_FACE">>[axis]

MaxFace(axis) == <<"MAX_X_FACE", "MAX_Y_FACE", "MAX_Z_FACE">>[axis]

\* half the edge of the closed room, and the x of the single wall
BoxHalf == 1 * CmPerMeter
WallX == 10 * CmPerMeter

NoHit == [hit |-> FALSE, distance |-> 0, face |-> "MIN_X_FACE"]

\* distance along direction to the plane coordinate = target of one axis
AxisDistance(start, direction, axis, target) ==
    Quot(Abs(target - start[axis]) * DirOne, Abs(direction[axis]))

\* the walls of the room a ray can reach: those it points at
BoxCandidates(start, direction) ==
    {axis \in 1..3 : direction[axis] # 0}

BoxHitDistance(start, direction, axis) ==
    AxisDistance(start, direction, axis,
                 IF direction[axis] > 0 THEN BoxHalf ELSE -BoxHalf)

RayInBox(start, direction) ==
    LET cand == BoxCandidates(start, direction)
    IN  IF cand = {} THEN NoHit
        ELSE LET best == CHOOSE a \in cand :
                            \A b \in cand :
                                \/ BoxHitDistance(start, direction, a)
                                     < BoxHitDistance(start, direction, b)
                                \/ /\ BoxHitDistance(start, direction, a)
                                        = BoxHitDistance(start, direction, b)
                                   /\ a <= b
             IN  [hit |-> TRUE,
                  distance |-> BoxHitDistance(start, direction, best),
                  face |-> IF direction[best] > 0 THEN MinFace(best) ELSE MaxFace(best)]

RayAtWall(start, direction) ==
    IF direction[1] > 0 /\ start[1] < WallX
    THEN [hit |-> TRUE,
          distance |-> AxisDistance(start, direction, 1, WallX),
          face |-> "MIN_X_FACE"]
    ELSE NoHit

\* _voxels->findRayIntersection(start, direction, elementHit, distance, face)
findRayIntersection(start, direction) ==
    CASE world = "free" -> NoHit
      [] world = "wall" -> RayAtWall(start, direction)
      [] world = "box"  -> RayInBox(start, direction)
      [] world = "zero" -> [hit |-> TRUE, distance |-> 0, face |-> "MIN_X_FACE"]

\* ------------------------------------------------------------------------
\* Acoustic formulas
\* ------------------------------------------------------------------------
PreDelayAddedByOldCode ==
    IF menu.preDelay /\ ~menu.withDiffusions THEN params._preDelay ELSE 0

getDelayFromDistance(distance) ==
    params._soundMsPerMeter * distance + PreDelayAddedByOldCode

\* AttOne * (2^k cm in metres) ^ (log 0.3 / log 2.5), k = 0..20
GeometricTable ==
    <<13911611, 5595448, 2250569, 905211, 364088, 146441, 58900, 23690, 9528,
      3832, 1541, 620, 249, 100, 40, 16, 6, 2, 1, 0, 0, 0>>

\* powf(GEOMETRIC_AMPLITUDE_SCALAR, DISTANCE_SCALE_LOG + 0.5 * logf(d * d) / logf(2.5) - 1)
\* interpolated between the powers of two, for a distance of 1 cm or more
GeometricCoefficient(distance) ==
    LET k == Min(Log2Floor(distance), 20)
        lo == Pow2(k)
        a == GeometricTable[k + 1]
        b == GeometricTable[k + 2]
    IN  a - Quot((a - b) * Min(distance - lo, lo), lo)

\* at distance 0 powf yields +infinity and std::min(1.0f, ...) yields 1.0f
getDistanceAttenuationCoefficient(distance) ==
    IF distance <= 0 THEN AttOne
    ELSE Min(AttOne,
             Quot(GeometricCoefficient(distance) * params._distanceAttenuationScalingFactor, 10))

\* a surface whose reflective ratio adds the two ratios instead of taking them off
SurfaceThatGains ==
    [reflectiveRatio |-> AttOne + (params._absorptionRatio + params._diffusionRatio),
     absorptionRatio |-> params._absorptionRatio,
     diffusionRatio |-> params._diffusionRatio]

\* a surface that takes the diffused share off twice
SurfaceLessDiffusionTwice ==
    [reflectiveRatio |-> AttOne - (params._absorptionRatio + params._diffusionRatio)
                           - params._diffusionRatio,
     absorptionRatio |-> params._absorptionRatio,
     diffusionRatio |-> params._diffusionRatio]

getSurfaceCharacteristics ==
    [reflectiveRatio |-> AttOne - (params._absorptionRatio + params._diffusionRatio),
     absorptionRatio |-> params._absorptionRatio,
     diffusionRatio |-> params._diffusionRatio]

RECURSIVE PowAtt(_, _)
PowAtt(ratio, n) ==
    IF n <= 0 THEN AttOne ELSE Quot(ratio * PowAtt(ratio, n - 1), AttOne)

getBounceAttenuationCoefficient(bounceCount) ==
    PowAtt(getSurfaceCharacteristics.reflectiveRatio, bounceCount)

\* A draw is what randFloatInRange returns for one normal or one diffusion:
\*   len  normalLength in [0.99, 1.0]     r  randomness in [0.5, 1.0]
\*   sa, sb  the two remainder signs

AxisVector(face, main, a, b) ==
    CASE face = "MIN_X_FACE" -> Vec(-main, a, b)
      [] face = "MAX_X_FACE" -> Vec(main, a, b)
      [] face = "MIN_Y_FACE" -> Vec(a, -main, b)
      [] face = "MAX_Y_FACE" -> Vec(a, main, b)
      [] face = "MIN_Z_FACE" -> Vec(a, b, -main)
      [] face = "MAX_Z_FACE" -> Vec(a, b, main)

getFaceNormal(face, draw) ==
    LET normalLength == IF menu.slightlyRandomSurfaces THEN draw.len ELSE DirOne
        remainder == (DirOne - normalLength) \div 2
    IN  AxisVector(face, normalLength, remainder * draw.sa, remainder * draw.sb)

\* the direction of one diffusion: a point of the semisphere over the face
DiffusionDirection(face, draw) ==
    LET randomness == draw.r
        remainder == (DirOne - randomness) \div 2
    IN  Normalize(AxisVector(face, randomness, remainder * draw.sa, remainder * draw.sb))


\* ------------------------------------------------------------------------
\* AudioPath, AudioPoint and the diffusion method
\* ------------------------------------------------------------------------
AudioPath(origin, direction, attenuation, delay, distance, bounceCount) ==
    [startPoint |-> origin, startDirection |-> direction,
     startDelay |-> delay, startAttenuation |-> attenuation,
     lastPoint |-> origin, lastDirection |-> direction,
     lastDistance |-> distance, lastDelay |-> delay,
     lastAttenuation |-> attenuation, bounceCount |-> bounceCount,
     finalized |-> FALSE, reflections |-> <<>>]

\* addSoundSource: the path it pushes on _audioPaths
addSoundSource(origin, initialDirection, initialAttenuation, initialDelay, initialDistance) ==
    AudioPath(origin, initialDirection, initialAttenuation, initialDelay, initialDistance, 0)

\* if (path->bounceCount > ABSOLUTE_MAXIMUM_BOUNCE_COUNT)
BounceCountTooHigh(bounceCount) == bounceCount > ABSOLUTE_MAXIMUM_BOUNCE_COUNT

\* a condition that adds the diffusions however quiet they are
SpawnsDiffusionsHoweverQuiet(partialDiffusionAttenuation, toListenerAttenuation, totalDelay) ==
    /\ partialDiffusionAttenuation * toListenerAttenuation >= 0
    /\ totalDelay < MAXIMUM_DELAY_MS

\* the condition under which the diffusions of a hit are added
SpawnsDiffusions(partialDiffusionAttenuation, toListenerAttenuation, totalDelay) ==
    /\ partialDiffusionAttenuation * toListenerAttenuation
          > MINIMUM_ATTENUATION_TO_REFLECT * AttOne
    /\ totalDelay < MAXIMUM_DELAY_MS

\* a gate that counts the reflected part only
IsAudibleByReflection(reflectiveAttenuation, totalDiffusionAttenuation, toListenerAttenuation, totalDelay) ==
    /\ reflectiveAttenuation * toListenerAttenuation > MINIMUM_ATTENUATION_TO_REFLECT * AttOne
    /\ totalDelay < MAXIMUM_DELAY_MS

\* a gate that does not look at the delay
IsAudibleAtAnyDelay(reflectiveAttenuation, totalDiffusionAttenuation, toListenerAttenuation, totalDelay) ==
    (reflectiveAttenuation + totalDiffusionAttenuation) * toListenerAttenuation
        > MINIMUM_ATTENUATION_TO_REFLECT * AttOne

\* the condition under which the hit becomes an audible point
IsAudible(reflectiveAttenuation, totalDiffusionAttenuation, toListenerAttenuation, totalDelay) ==
    /\ (reflectiveAttenuation + totalDiffusionAttenuation) * toListenerAttenuation
          > MINIMUM_ATTENUATION_TO_REFLECT * AttOne
    /\ totalDelay < MAXIMUM_DELAY_MS

\* a condition that lets every audible hit keep going
KeepsGoingWhateverIsLeft(reflectiveAttenuation, toListenerAttenuation) ==
    reflectiveAttenuation * toListenerAttenuation >= 0

\* the condition under which the path keeps going after an audible hit
KeepsGoing(reflectiveAttenuation, toListenerAttenuation) ==
    reflectiveAttenuation * toListenerAttenuation > MINIMUM_ATTENUATION_TO_REFLECT * AttOne

PartialDiffusionAttenuation(totalDiffusionAttenuation) ==
    IF params._diffusionFanout < 1 THEN 0
    ELSE Quot(totalDiffusionAttenuation, params._diffusionFanout)

NthDraw(tape, n) == tape[((n - 1) % Len(tape)) + 1]

\* glm::vec3 end = start + (direction * (distance * SLIGHTLY_SHORT))
HitEnd(start, direction, distance) ==
    VecAdd(start, VecScale(direction, Quot(distance * SLIGHTLY_SHORT, 1000)))

\* what the code computes at a hit from the path, the ray and the end point
HitGeometry(path, ray, end) ==
    [face |-> ray.face,
     end |-> end,
     segment |-> Distance(path.lastPoint, end),
     pathDistance |-> path.lastDistance + Distance(path.lastPoint, end),
     toListenerDistance |-> Distance(end, _listenerPosition),
     currentDelay |-> path.lastDelay + getDelayFromDistance(ray.distance),
     reflectiveAttenuation |->
         Quot(path.lastAttenuation * getSurfaceCharacteristics.reflectiveRatio, AttOne),
     totalDiffusionAttenuation |->
         Quot(path.lastAttenuation * getSurfaceCharacteristics.diffusionRatio, AttOne)]

\* ... then the share of one diffusion, the delay and the attenuation to the listener
HitAttenuations(g) ==
    g @@ [partialDiffusionAttenuation |->
              PartialDiffusionAttenuation(g.totalDiffusionAttenuation),
          totalDelay |-> g.currentDelay + getDelayFromDistance(g.toListenerDistance),
          toListenerAttenuation |->
              getDistanceAttenuationCoefficient(g.toListenerDistance + g.pathDistance)]

\* ... then the two gates, and whether the path is reflected on
HitGates(h) ==
    h @@ [spawns |-> SpawnsDiffusions(h.partialDiffusionAttenuation,
                                      h.toListenerAttenuation, h.totalDelay),
          audible |-> IsAudible(h.reflectiveAttenuation, h.totalDiffusionAttenuation,
                                h.toListenerAttenuation, h.totalDelay),
          goesOn |-> /\ IsAudible(h.reflectiveAttenuation, h.totalDiffusionAttenuation,
                                  h.toListenerAttenuation, h.totalDelay)
                     /\ KeepsGoing(h.reflectiveAttenuation, h.toListenerAttenuation)]

Hit(path, ray) ==
    HitGates(HitAttenuations(
        HitGeometry(path, ray, HitEnd(path.lastPoint, path.lastDirection, ray.distance))))

\* the diffusions addSoundSource adds at a hit
ChildrenOfHit(h, tape) ==
    IF h.spawns
    THEN [i \in 1..params._diffusionFanout |->
            addSoundSource(h.end, DiffusionDirection(h.face, NthDraw(tape, i)),
                           h.partialDiffusionAttenuation, h.currentDelay, h.pathDistance)]
    ELSE <<>>

\* AudiblePoint point = { end, currentDelay, reflective + totalDiffusion, pathDistance }
PointOfHit(h) ==
    [location |-> h.end, delay |-> h.currentDelay,
     attenuation |-> h.reflectiveAttenuation + h.totalDiffusionAttenuation,
     distance |-> h.pathDistance]

\* a path that keeps the hit point only when it is reflected on
PathAfterHitUnlessLast(path, h, faceNormal) ==
    IF h.goesOn
    THEN [path EXCEPT !.reflections = Append(@, h.end),
                      !.lastDirection = Normalize(Reflect(path.lastDirection, faceNormal)),
                      !.lastPoint = h.end,
                      !.lastAttenuation = h.reflectiveAttenuation,
                      !.lastDelay = h.currentDelay,
                      !.lastDistance = h.pathDistance,
                      !.bounceCount = @ + 1]
    ELSE [path EXCEPT !.finalized = TRUE]

\* the path after the hit: reflected on, or finalized
PathAfterHit(path, h, faceNormal) ==
    IF h.goesOn
    THEN [path EXCEPT !.reflections = Append(@, h.end),
                      !.lastDirection = Normalize(Reflect(path.lastDirection, faceNormal)),
                      !.lastPoint = h.end,
                      !.lastAttenuation = h.reflectiveAttenuation,
                      !.lastDelay = h.currentDelay,
                      !.lastDistance = h.pathDistance,
                      !.bounceCount = @ + 1]
    ELSE IF h.audible
    THEN [path EXCEPT !.reflections = Append(@, h.end), !.finalized = TRUE]
    ELSE [path EXCEPT !.finalized = TRUE]

\* the record hitLog keeps of a hit
LogOfHit(path, h, children, after) ==
    [end |-> h.end,
     before |-> path,
     after |-> after,
     reflectiveAttenuation |-> h.reflectiveAttenuation,
     totalDiffusionAttenuation |-> h.totalDiffusionAttenuation,
     partialDiffusionAttenuation |-> h.partialDiffusionAttenuation,
     toListenerAttenuation |-> h.toListenerAttenuation,
     currentDelay |-> h.currentDelay,
     totalDelay |-> h.totalDelay,
     pathDistance |-> h.pathDistance,
     segment |-> h.segment,
     spawned |-> Len(children),
     children |-> children,
     emitted |-> h.audible,
     continued |-> h.goesOn]

StepAtHit(path, tape, h) ==
    [paths |-> <<PathAfterHit(path, h, getFaceNormal(h.face, NthDraw(tape, 1)))>>,
     added |-> ChildrenOfHit(h, tape),
     points |-> IF h.audible THEN <<PointOfHit(h)>> ELSE <<>>,
     log |-> <<LogOfHit(path, h, ChildrenOfHit(h, tape),
                        PathAfterHit(path, h, getFaceNormal(h.face, NthDraw(tape, 1))))>>,
     active |-> 1]

\* a miss that leaves the path active
LeftActive(path) == path

\* path->finalized = true, with nothing emitted
TerminatedSilently(path) == [path EXCEPT !.finalized = TRUE]

StepWithoutHit(path) ==
    [paths |-> <<TerminatedSilently(path)>>,
     added |-> <<>>, points |-> <<>>, log |-> <<>>, active |-> 1]

StepAfterQuery(path, tape, ray) ==
    IF ~ray.hit THEN StepWithoutHit(path) ELSE StepAtHit(path, tape, Hit(path, ray))

\* The body of the foreach of analyzePathsSingleStep for one path that is not
\* finalized: the path afterwards, the paths and the audible point it adds,
\* and a record of what was computed at the hit.
StepPath(path, tape) ==
    IF BounceCountTooHigh(path.bounceCount)
    THEN [paths |-> <<[path EXCEPT !.finalized = TRUE]>>,
          added |-> <<>>, points |-> <<>>, log |-> <<>>, active |-> 1]
    ELSE StepAfterQuery(path, tape, findRayIntersection(path.lastPoint, path.lastDirection))

\* the results of two stretches of the foreach, one after the other
StepsInOrder(first, rest) ==
    [paths |-> first.paths \o rest.paths,
     added |-> first.added \o rest.added,
     points |-> first.points \o rest.points,
     log |-> first.log \o rest.log,
     active |-> first.active + rest.active]

\* analyzePathsSingleStep: the foreach runs over a copy of _audioPaths taken when
\* it starts, so paths added during the step are first visited by the next step.
\* The paths from index lo to hi, visited in order (the range is halved so that
\* the evaluation stays shallow): [paths, added, points, log, active].
RECURSIVE SingleStepFrom(_, _, _, _)
SingleStepFrom(paths, lo, hi, tape) ==
    IF lo > hi
    THEN [paths |-> <<>>, added |-> <<>>, points |-> <<>>, log |-> <<>>, active |-> 0]
    ELSE IF lo = hi
    THEN IF paths[lo].finalized
         THEN [paths |-> <<paths[lo]>>, added |-> <<>>, points |-> <<>>, log |-> <<>>,
               active |-> 0]
         ELSE StepPath(paths[lo], tape)
    ELSE StepsInOrder(SingleStepFrom(paths, lo, (lo + hi) \div 2, tape),
                      SingleStepFrom(paths, (lo + hi) \div 2 + 1, hi, tape))

\* a step that reports the paths still active when it ends
SingleStepReportingSurvivors(paths, tape) ==
    LET r == SingleStepFrom(paths, 1, Len(paths), tape)
    IN  [r EXCEPT !.active = Cardinality({i \in 1..Len(r.paths) : ~r.paths[i].finalized})]

analyzePathsSingleStep(paths, tape) == SingleStepFrom(paths, 1, Len(paths), tape)

\* the orientation of the avatar, as the axes it gives: right, up, front
\*   0: identity (IDENTITY_RIGHT, IDENTITY_UP, IDENTITY_FRONT)
\*   1: a quarter turn about the up axis
OrientationAxes(o) ==
    IF o = 0
    THEN [right |-> Vec(DirOne, 0, 0), up |-> Vec(0, DirOne, 0), front |-> Vec(0, 0, -DirOne)]
    ELSE [right |-> Vec(0, 0, -DirOne), up |-> Vec(0, DirOne, 0), front |-> Vec(-DirOne, 0, 0)]

\* the 14 directions both methods fire, by name
SeedAmong(right, up, front, left, down, back, name) ==
    CASE name = "right" -> right
      [] name = "left" -> left
      [] name = "up" -> up
      [] name = "down" -> down
      [] name = "front" -> front
      [] name = "back" -> back
      [] name = "frontRightUp" -> Normalize(VecAdd(VecAdd(front, right), up))
      [] name = "frontLeftUp" -> Normalize(VecAdd(VecAdd(front, left), up))
      [] name = "backRightUp" -> Normalize(VecAdd(VecAdd(back, right), up))
      [] name = "backLeftUp" -> Normalize(VecAdd(VecAdd(back, left), up))
      [] name = "frontRightDown" -> Normalize(VecAdd(VecAdd(front, right), down))
      [] name = "frontLeftDown" -> Normalize(VecAdd(VecAdd(front, left), down))
      [] name = "backRightDown" -> Normalize(VecAdd(VecAdd(back, right), down))
      [] name = "backLeftDown" -> Normalize(VecAdd(VecAdd(back, left), down))

SeedDirection(o, name) ==
    SeedAmong(Normalize(OrientationAxes(o).right), Normalize(OrientationAxes(o).up),
              Normalize(OrientationAxes(o).front),
              VecNeg(Normalize(OrientationAxes(o).right)),
              VecNeg(Normalize(OrientationAxes(o).up)),
              VecNeg(Normalize(OrientationAxes(o).front)), name)

\* the order of the addSoundSource calls of analyzePaths
DiffusionSeedOrder ==
    <<"right", "front", "up", "down", "back", "left",
      "frontRightUp", "frontLeftUp", "backRightUp", "backLeftUp",
      "frontRightDown", "frontLeftDown", "backRightDown", "backLeftDown">>

\* analyzePaths up to its loop: _audioPaths after the 14 addSoundSource calls
InitialPaths(origin, orientation) ==
    LET preDelay == IF menu.preDelay THEN params._preDelay ELSE 0
    IN  [i \in 1..Len(DiffusionSeedOrder) |->
            addSoundSource(origin, SeedDirection(orientation, DiffusionSeedOrder[i]),
                           AttOne, preDelay, 0)]

\* countDiffusionPaths
countDiffusionPaths(paths, origin) ==
    Cardinality({i \in 1..Len(paths) : paths[i].startPoint # origin})


\* ------------------------------------------------------------------------
\* The old method: one chain of reflections per direction
\* ------------------------------------------------------------------------
\* a loop condition that lets the count pass the limit
ChainLoopConditionPastLimit(currentAttenuation, totalDelay, bounceCount) ==
    /\ currentAttenuation > MINIMUM_ATTENUATION_TO_REFLECT
    /\ totalDelay < MAXIMUM_DELAY_MS
    /\ bounceCount <= ABSOLUTE_MAXIMUM_BOUNCE_COUNT + 1

\* while (currentAttenuation > MINIMUM_ATTENUATION_TO_REFLECT
\*        && totalDelay < MAXIMUM_DELAY_MS && bounceCount < ABSOLUTE_MAXIMUM_BOUNCE_COUNT)
ChainLoopCondition(currentAttenuation, totalDelay, bounceCount) ==
    /\ currentAttenuation > MINIMUM_ATTENUATION_TO_REFLECT
    /\ totalDelay < MAXIMUM_DELAY_MS
    /\ bounceCount < ABSOLUTE_MAXIMUM_BOUNCE_COUNT

\* l: the locals of calculateReflections (totalDistance is the outer variable,
\* which the inner declaration of the same name hides)
RECURSIVE ChainLoop(_, _, _)

\* the rest of the loop body, once the distance, the delay and the attenuation
\* of the hit are known
ChainBounce(earPosition, tape, l, ray, end, innerTotal, totalDelay, currentAttenuation) ==
    IF currentAttenuation > MINIMUM_ATTENUATION_TO_REFLECT /\ totalDelay < MAXIMUM_DELAY_MS
    THEN ChainLoop(earPosition, tape,
            [reflectionPoints |-> Append(l.reflectionPoints, end),
             start |-> end,
             direction |-> Normalize(Reflect(l.direction,
                                             getFaceNormal(ray.face, NthDraw(tape, 1)))),
             currentAttenuation |-> currentAttenuation,
             totalDistance |-> l.totalDistance + Distance(l.start, end),
             totalDelay |-> totalDelay,
             usedDistance |-> Append(l.usedDistance, innerTotal),
             queries |-> l.queries + 1,
             bounceCount |-> l.bounceCount + 1])
    ELSE ChainLoop(earPosition, tape,
            [l EXCEPT !.currentAttenuation = currentAttenuation,
                      !.totalDistance = l.totalDistance + Distance(l.start, end),
                      !.totalDelay = totalDelay,
                      !.queries = @ + 1])

\* innerTotal: float totalDistance = earDistance + distance, the inner declaration
ChainAtHit(earPosition, tape, l, ray, end, innerTotal) ==
    ChainBounce(earPosition, tape, l, ray, end, innerTotal,
                getDelayFromDistance(innerTotal),
                Quot(getDistanceAttenuationCoefficient(innerTotal)
                       * getBounceAttenuationCoefficient(l.bounceCount), AttOne))

ChainAfterQuery(earPosition, tape, l, ray) ==
    IF ~ray.hit
    THEN ChainLoop(earPosition, tape, [l EXCEPT !.currentAttenuation = 0, !.queries = @ + 1])
    ELSE ChainAtHit(earPosition, tape, l, ray,
                    HitEnd(l.start, l.direction, ray.distance),
                    Distance(HitEnd(l.start, l.direction, ray.distance), earPosition)
                      + ray.distance)

ChainLoop(earPosition, tape, l) ==
    IF ~ChainLoopCondition(l.currentAttenuation, l.totalDelay, l.bounceCount) THEN l
    ELSE ChainAfterQuery(earPosition, tape, l, findRayIntersection(l.start, l.direction))

calculateReflections(earPosition, origin, originalDirection, tape) ==
    ChainLoop(earPosition, tape,
        [reflectionPoints |-> <<>>, start |-> origin, direction |-> originalDirection,
         currentAttenuation |-> AttOne, totalDistance |-> 0, totalDelay |-> 0,
         usedDistance |-> <<>>, queries |-> 0, bounceCount |-> 1])

\* the order of the calculateReflections calls of calculateAllReflections
ChainSeedOrder ==
    <<"right", "frontRightUp", "frontLeftUp", "backRightUp", "backLeftUp",
      "frontRightDown", "frontLeftDown", "backRightDown", "backLeftDown",
      "front", "back", "left", "up", "down">>

SeedNames == {ChainSeedOrder[i] : i \in 1..Len(ChainSeedOrder)}

RECURSIVE SumOfSizes(_, _)
SumOfSizes(lists, names) ==
    IF names = {} THEN 0
    ELSE LET n == CHOOSE x \in names : TRUE
         IN  Len(lists[n]) + SumOfSizes(lists, names \ {n})

\* the sum reset() and oldEchoAudio() store in _reflections
TotalChainReflections(lists) == SumOfSizes(lists, SeedNames)

\* ------------------------------------------------------------------------
\* Pose and staleness
\* ------------------------------------------------------------------------
POSITION_SIMILAR_ENOUGH == 1

isSimilarPosition(a, b) == Distance(a, b) <= POSITION_SIMILAR_ENOUGH

isSimilarOrientation(a, b) == a = b

\* the orientation a trace uses
SelectedOrientation ==
    IF menu.headOriented THEN avatar.headOrientation ELSE avatar.orientation

\* a staleness test that does not look at the selected engine
ShouldRecalcForPoseOnly(origin, orientation, listenerPosition, withDiffusion) ==
    \/ _reflections = 0
    \/ ~isSimilarPosition(origin, _origin)
    \/ ~isSimilarOrientation(orientation, _orientation)
    \/ ~isSimilarPosition(listenerPosition, _listenerPosition)

\* bool shouldRecalc = ... of calculateAllReflections and newCalculateAllReflections
ShouldRecalc(origin, orientation, listenerPosition, withDiffusion) ==
    \/ _reflections = 0
    \/ ~isSimilarPosition(origin, _origin)
    \/ ~isSimilarOrientation(orientation, _orientation)
    \/ ~isSimilarPosition(listenerPosition, _listenerPosition)
    \/ withDiffusion # _withDiffusion

\* a locker that never waits
MutexNeverBlocks(owner) == TRUE

\* QMutexLocker locker(&_mutex) returns once no other thread owns _mutex
MutexAvailable(owner) == owner = "free"

\* unlockedAccess after a thread touched these members, owning _mutex or not
Touch(thread, owns, members) ==
    IF owns THEN unlockedAccess
    ELSE unlockedAccess \cup {<<thread, m>> : m \in members}


\* ------------------------------------------------------------------------
\* The injector
\* ------------------------------------------------------------------------
\* the conversion of a float product to int16_t
ToInt16(v) == ((v + 32768) % 65536) - 32768

\* half the distance between the ears, in cm
EarOffset == 1 * 10

\* getRightEarPosition() and getLeftEarPosition() of the head
EarShiftedBy(side, shift) ==
    IF side = "right" THEN VecAdd(avatar.position, shift)
    ELSE VecAdd(avatar.position, VecNeg(shift))

EarPosition(side) ==
    IF ~menu.separateEars THEN avatar.position
    ELSE EarShiftedBy(side, VecScale(OrientationAxes(avatar.headOrientation).right, EarOffset))

\* samples.size() / sizeof(int16_t)
TotalNumberOfSamples(size) == size \div SIZEOF_INT16

\* samples.size() / (sizeof(int16_t) * NUMBER_OF_CHANNELS)
TotalNumberOfStereoSamples(size) == size \div (SIZEOF_INT16 * NUMBER_OF_CHANNELS)

\* int earDelay = earDelayMsecs * sampleRate / MSECS_PER_SECOND
\* (the product is formed in two parts to stay within the integers of the checker)
DelayInSamples(delayMsecs, sampleRate) ==
    LET perUnit == sampleRate \div DelayPerMs
    IN  (delayMsecs \div MSECS_PER_SECOND) * perUnit
          + ((delayMsecs % MSECS_PER_SECOND) * perUnit) \div MSECS_PER_SECOND

\* What the sample loop leaves in attenuatedLeftSamples: resize() does not
\* initialise the buffer, so a slot the loop does not write holds whatever
\* the allocation held (garbage). Slot k is 16-bit index k - 1.
AttenuatedLeftSamples(batch, leftEarAttenuation, garbage) ==
    [k \in 1..TotalNumberOfSamples(batch.size) |->
        IF (k - 1) \div NUMBER_OF_CHANNELS >= TotalNumberOfStereoSamples(batch.size)
        THEN garbage
        ELSE IF (k - 1) % NUMBER_OF_CHANNELS = 0
        THEN ToInt16(Quot(batch.data[k] * leftEarAttenuation, AttOne))
        ELSE 0]

\* a sample loop that takes the right sample of the frame whatever the menu says
AttenuatedRightSamplesAlwaysStereo(batch, rightEarAttenuation, garbage) ==
    [k \in 1..TotalNumberOfSamples(batch.size) |->
        IF (k - 1) \div NUMBER_OF_CHANNELS >= TotalNumberOfStereoSamples(batch.size)
        THEN garbage
        ELSE IF (k - 1) % NUMBER_OF_CHANNELS = 0
        THEN 0
        ELSE ToInt16(Quot(batch.data[k] * rightEarAttenuation, AttOne))]

AttenuatedRightSamples(batch, rightEarAttenuation, garbage) ==
    [k \in 1..TotalNumberOfSamples(batch.size) |->
        IF (k - 1) \div NUMBER_OF_CHANNELS >= TotalNumberOfStereoSamples(batch.size)
        THEN garbage
        ELSE IF (k - 1) % NUMBER_OF_CHANNELS = 0
        THEN 0
        ELSE ToInt16(Quot((IF menu.stereoSource THEN batch.data[k] ELSE batch.data[k - 1])
                            * rightEarAttenuation, AttOne))]

\* the two addSpatialAudioToBuffer calls of one contribution
Submissions(batch, leftDelayMsecs, rightDelayMsecs, leftAttenuation, rightAttenuation, garbage) ==
    <<[ear |-> "left",
       sampleTime |-> batch.sampleTime + DelayInSamples(leftDelayMsecs, batch.sampleRate),
       samples |-> AttenuatedLeftSamples(batch, leftAttenuation, garbage),
       numSamples |-> TotalNumberOfSamples(batch.size),
       delayMsecs |-> leftDelayMsecs, attenuation |-> leftAttenuation],
      [ear |-> "right",
       sampleTime |-> batch.sampleTime + DelayInSamples(rightDelayMsecs, batch.sampleRate),
       samples |-> AttenuatedRightSamples(batch, rightAttenuation, garbage),
       numSamples |-> TotalNumberOfSamples(batch.size),
       delayMsecs |-> rightDelayMsecs, attenuation |-> rightAttenuation]>>

\* the running statistics after the contributions subs: each added its delay
\* and attenuation to the totals and the counts and was compared with the
\* largest and smallest so far. The range lo..hi of subs is halved so that the
\* evaluation stays shallow: [delay, attenuation, maxDelay, minDelay,
\* maxAttenuation, minAttenuation, count].
RECURSIVE Tally(_, _, _)
Tally(subs, lo, hi) ==
    IF lo = hi
    THEN [delay |-> subs[lo].delayMsecs, attenuation |-> subs[lo].attenuation,
          maxDelay |-> subs[lo].delayMsecs, minDelay |-> subs[lo].delayMsecs,
          maxAttenuation |-> subs[lo].attenuation, minAttenuation |-> subs[lo].attenuation,
          count |-> 1]
    ELSE LET mid == (lo + hi) \div 2
             a == Tally(subs, lo, mid)
             b == Tally(subs, mid + 1, hi)
         IN  [delay |-> a.delay + b.delay, attenuation |-> a.attenuation + b.attenuation,
              maxDelay |-> Max(a.maxDelay, b.maxDelay),
              minDelay |-> Min(a.minDelay, b.minDelay),
              maxAttenuation |-> Max(a.maxAttenuation, b.maxAttenuation),
              minAttenuation |-> Min(a.minAttenuation, b.minAttenuation),
              count |-> a.count + b.count]

AddToStats(st, subs) ==
    IF subs = <<>> THEN st
    ELSE LET t == Tally(subs, 1, Len(subs))
         IN  [st EXCEPT !._totalDelay = @ + t.delay,
                        !._delayCount = @ + t.count,
                        !._maxDelay = Max(@, t.maxDelay),
                        !._minDelay = Min(@, t.minDelay),
                        !._totalAttenuation = @ + t.attenuation,
                        !._attenuationCount = @ + t.count,
                        !._maxAttenuation = Max(@, t.maxAttenuation),
                        !._minAttenuation = Min(@, t.minAttenuation)]

\* injectAudiblePoint once the distances from the point to the ears are known
InjectAtDistances(audiblePoint, batch, garbage, leftEarDistance, rightEarDistance) ==
    Submissions(batch,
                getDelayFromDistance(leftEarDistance) + audiblePoint.delay,
                getDelayFromDistance(rightEarDistance) + audiblePoint.delay,
                Quot(audiblePoint.attenuation
                       * getDistanceAttenuationCoefficient(leftEarDistance
                                                             + audiblePoint.distance),
                     AttOne),
                Quot(audiblePoint.attenuation
                       * getDistanceAttenuationCoefficient(rightEarDistance
                                                             + audiblePoint.distance),
                     AttOne),
                garbage)

\* what injectAudiblePoint submits for one audible point
injectAudiblePoint(audiblePoint, batch, garbage) ==
    InjectAtDistances(audiblePoint, batch, garbage,
                      Distance(audiblePoint.location, EarPosition("left")),
                      Distance(audiblePoint.location, EarPosition("right")))

\* foreach(const AudioPoint& audiblePoint, _audiblePoints) of newEchoAudio:
\* the submissions for the points lo..hi, in order
RECURSIVE InjectAll(_, _, _, _, _)
InjectAll(points, lo, hi, batch, garbage) ==
    IF lo > hi THEN <<>>
    ELSE IF lo = hi THEN injectAudiblePoint(points[lo], batch, garbage)
    ELSE InjectAll(points, lo, (lo + hi) \div 2, batch, garbage)
           \o InjectAll(points, (lo + hi) \div 2 + 1, hi, batch, garbage)

\* the two submissions of one reflection of a chain, once the distances
\* travelled to the ears and the attenuation of the bounce are known
EchoSubmissions(batch, garbage, leftTotalDistance, rightTotalDistance, bounceAttenuation) ==
    Submissions(batch,
                getDelayFromDistance(leftTotalDistance),
                getDelayFromDistance(rightTotalDistance),
                Quot(getDistanceAttenuationCoefficient(leftTotalDistance) * bounceAttenuation,
                     AttOne),
                Quot(getDistanceAttenuationCoefficient(rightTotalDistance) * bounceAttenuation,
                     AttOne),
                garbage)

\* the foreach of echoReflections from reflection i on:
\* l = [start, rightDistance, leftDistance, bounceCount] so far
RECURSIVE EchoLoop(_, _, _, _, _)

\* l: the locals after bounceCount++ and the two += of this reflection
EchoAt(reflections, i, batch, garbage, l) ==
    EchoSubmissions(batch, garbage,
                    Distance(l.start, EarPosition("left")) + l.leftDistance,
                    Distance(l.start, EarPosition("right")) + l.rightDistance,
                    getBounceAttenuationCoefficient(l.bounceCount))
      \o EchoLoop(reflections, i + 1, batch, garbage, l)

EchoLoop(reflections, i, batch, garbage, l) ==
    IF i > Len(reflections) THEN <<>>
    ELSE EchoAt(reflections, i, batch, garbage,
                [start |-> reflections[i],
                 rightDistance |-> l.rightDistance + Distance(l.start, reflections[i]),
                 leftDistance |-> l.leftDistance + Distance(l.start, reflections[i]),
                 bounceCount |-> l.bounceCount + 1])

echoReflections(origin, reflections, batch, garbage) ==
    EchoLoop(reflections, 1, batch, garbage,
             [start |-> origin, rightDistance |-> 0, leftDistance |-> 0, bounceCount |-> 0])

\* the order of the echoReflections calls of oldEchoAudio
EchoSeedOrder ==
    <<"frontRightUp", "frontLeftUp", "backRightUp", "backLeftUp",
      "frontRightDown", "frontLeftDown", "backRightDown", "backLeftDown",
      "front", "back", "left", "right", "up", "down">>

RECURSIVE EchoAll(_, _, _)
EchoAll(i, batch, garbage) ==
    IF i > Len(EchoSeedOrder) THEN <<>>
    ELSE echoReflections(_origin, reflectionLists[EchoSeedOrder[i]], batch, garbage)
           \o EchoAll(i + 1, batch, garbage)

INT_MAX == 2147483647

\* std::numeric_limits<float>::max(), as the largest value of the model
FLOAT_MAX == INT_MAX

\* the statistics as the first lines of newEchoAudio and oldEchoAudio set them
ResetStats(st) ==
    [st EXCEPT !._maxDelay = 0, !._maxAttenuation = 0,
               !._minDelay = INT_MAX, !._minAttenuation = FLOAT_MAX,
               !._totalDelay = 0, !._delayCount = 0,
               !._totalAttenuation = 0, !._attenuationCount = 0]

\* the statistics as the last lines of newEchoAudio and oldEchoAudio leave them
FinishStats(st, reflections) ==
    [st EXCEPT !._averageDelay = IF st._delayCount = 0 THEN 0
                                 ELSE st._totalDelay \div st._delayCount,
               !._averageAttenuation = IF st._attenuationCount = 0 THEN 0
                                       ELSE st._totalAttenuation \div st._attenuationCount,
               !._minDelay = IF reflections = 0 THEN 0 ELSE @,
               !._minAttenuation = IF reflections = 0 THEN 0 ELSE @]


\* ------------------------------------------------------------------------
\* The first reflector (interface/src/AudioReflector.cpp): addSamples()
\* ------------------------------------------------------------------------
DELAY_PER_METER == 3

BOUNCE_COUNT == 5

BOUNCE_ATTENUATION_FACTOR == AttOne \div 2

\* int getDelayFromDistance(float distance): the product is converted to int
LegacyGetDelayFromDistance(distance) ==
    Quot(DELAY_PER_METER * distance, CmPerMeter) * DelayPerMs

\* float getDistanceAttenuationCoefficient(float distance), without a scaling factor
LegacyGetDistanceAttenuationCoefficient(distance) ==
    IF distance <= 0 THEN AttOne ELSE Min(AttOne, GeometricCoefficient(distance))

\* glm::vec3 getFaceNormal(BoxFace face)
LegacyGetFaceNormal(face) == AxisVector(face, DirOne, 0, 0)

\* getRightEarPosition() and getLeftEarPosition(), whatever the menu says
LegacyEarPosition(side) ==
    EarShiftedBy(side, VecScale(OrientationAxes(avatar.headOrientation).right, EarOffset))

\* samplesByteArray.size() / (sizeof(int16_t) * NUMBER_OF_CHANNELS)
LegacyTotalNumberOfSamples(size) == size \div (SIZEOF_INT16 * NUMBER_OF_CHANNELS)

\* the sample loop: slot k is 16-bit index k - 1
LegacyLeftSamples(batch, leftEarAttenuation) ==
    [k \in 1..(NUMBER_OF_CHANNELS * LegacyTotalNumberOfSamples(batch.size)) |->
        IF (k - 1) % NUMBER_OF_CHANNELS = 0
        THEN ToInt16(Quot(batch.data[k] * leftEarAttenuation, AttOne))
        ELSE 0]

LegacyRightSamples(batch, rightEarAttenuation) ==
    [k \in 1..(NUMBER_OF_CHANNELS * LegacyTotalNumberOfSamples(batch.size)) |->
        IF (k - 1) % NUMBER_OF_CHANNELS = 0
        THEN 0
        ELSE ToInt16(Quot(batch.data[k] * rightEarAttenuation, AttOne))]

\* coefficient * factor, both scaled by AttOne, the factor 0 or more
\* (the whole and the fractional part of the factor are multiplied apart to
\* stay within the integers of the checker)
TimesFactor(coefficient, factor) ==
    coefficient * (factor \div AttOne) + Quot(coefficient * (factor % AttOne), AttOne)

\* the two addDelayedAudio calls of one bounce
LegacyDelayedAudio(batch, bounceFactor, leftEarDistance, rightEarDistance) ==
    <<[ear |-> "left",
       delayMsecs |-> LegacyGetDelayFromDistance(leftEarDistance),
       attenuation |-> TimesFactor(LegacyGetDistanceAttenuationCoefficient(leftEarDistance),
                                     bounceFactor),
       samples |-> LegacyLeftSamples(batch,
                       TimesFactor(LegacyGetDistanceAttenuationCoefficient(leftEarDistance),
                                     bounceFactor))],
      [ear |-> "right",
       delayMsecs |-> LegacyGetDelayFromDistance(rightEarDistance),
       attenuation |-> TimesFactor(LegacyGetDistanceAttenuationCoefficient(rightEarDistance),
                                     bounceFactor),
       samples |-> LegacyRightSamples(batch,
                       TimesFactor(LegacyGetDistanceAttenuationCoefficient(rightEarDistance),
                                     bounceFactor))]>>

\* for (int bounceNumber = 1; bounceNumber <= bounces; bounceNumber++)
RECURSIVE LegacyBounces(_, _, _, _, _)

LegacyAtHit(direction, bounceNumber, bounces, batch, face, end) ==
    LegacyDelayedAudio(batch, bounceNumber * BOUNCE_ATTENUATION_FACTOR,
                       Distance(end, LegacyEarPosition("left")),
                       Distance(end, LegacyEarPosition("right")))
      \o LegacyBounces(end, Normalize(Reflect(direction, LegacyGetFaceNormal(face))),
                       bounceNumber + 1, bounces, batch)

LegacyAfterQuery(start, direction, bounceNumber, bounces, batch, ray) ==
    IF ~ray.hit
    THEN LegacyBounces(start, direction, bounceNumber + 1, bounces, batch)
    ELSE LegacyAtHit(direction, bounceNumber, bounces, batch, ray.face,
                     HitEnd(start, direction, ray.distance))

LegacyBounces(start, direction, bounceNumber, bounces, batch) ==
    IF bounceNumber > bounces THEN <<>>
    ELSE LegacyAfterQuery(start, direction, bounceNumber, bounces, batch,
                          findRayIntersection(start, direction))

\* calculateReflections(origin, originalDirection, bounces, samplesRingBuffer)
LegacyCalculateReflections(origin, originalDirection, bounces, batch) ==
    LegacyBounces(origin, originalDirection, 1, bounces, batch)

\* the order of the calculateReflections calls of addSamples
LegacySeedOrder ==
    <<"frontRightUp", "frontLeftUp", "backRightUp", "backLeftUp",
      "frontRightDown", "frontLeftDown", "backRightDown", "backLeftDown",
      "front", "back", "left", "right", "up", "down">>

\* ------------------------------------------------------------------------
\* Inputs: scenes, parameters, poses, audio batches
\* ------------------------------------------------------------------------
DefaultParams ==
    [_preDelay |-> DEFAULT_PRE_DELAY,
     _soundMsPerMeter |-> DEFAULT_MS_DELAY_PER_METER,
     _distanceAttenuationScalingFactor |-> DEFAULT_DISTANCE_SCALING_FACTOR,
     _diffusionFanout |-> DEFAULT_DIFFUSION_FANOUT,
     _absorptionRatio |-> DEFAULT_ABSORPTION_RATIO,
     _diffusionRatio |-> DEFAULT_DIFFUSION_RATIO]

DefaultMenu ==
    [withDiffusions |-> FALSE, preDelay |-> TRUE, slightlyRandomSurfaces |-> FALSE,
     headOriented |-> FALSE, separateEars |-> FALSE, stereoSource |-> TRUE]

\* the open scenes and settings a run starts from
Scenes ==
    { \* free space, constructor defaults
      [world |-> "free", params |-> DefaultParams, menu |-> DefaultMenu],
      \* one wall 10 m away, nothing absorbed or diffused
      [world |-> "wall",
       params |-> [DefaultParams EXCEPT !._absorptionRatio = 0, !._diffusionRatio = 0],
       menu |-> DefaultMenu],
      \* one wall, defaults, loud enough for the diffusions to be audible
      [world |-> "wall",
       params |-> [DefaultParams EXCEPT !._distanceAttenuationScalingFactor = 150],
       menu |-> [DefaultMenu EXCEPT !.separateEars = TRUE, !.stereoSource = FALSE]],
      \* every ray hits at distance 0, everything is diffused into one ray
      [world |-> "zero",
       params |-> [DefaultParams EXCEPT !._absorptionRatio = 0, !._diffusionRatio = AttOne,
                                        !._diffusionFanout = 1],
       menu |-> DefaultMenu],
      \* every ray hits at distance 0, a sixteenth is diffused into one ray and
      \* the rest absorbed: the diffusions of the diffusions are too quiet
      [world |-> "zero",
       params |-> [DefaultParams EXCEPT !._absorptionRatio = AttOne - AttOne \div 16,
                                        !._diffusionRatio = AttOne \div 16,
                                        !._diffusionFanout = 1],
       menu |-> DefaultMenu] }

\* the closed rooms and settings a run starts from
Rooms ==
    { \* closed room, perfectly reflecting walls, no diffusion
      [world |-> "box",
       params |-> [DefaultParams EXCEPT !._absorptionRatio = 0, !._diffusionRatio = 0,
                                        !._diffusionFanout = 0],
       menu |-> [DefaultMenu EXCEPT !.preDelay = FALSE]],
      \* closed room, absorbing walls, one diffusion per hit, slightly random surfaces
      [world |-> "box",
       params |-> [DefaultParams EXCEPT !._absorptionRatio = AttOne \div 2,
                                        !._diffusionFanout = 1],
       menu |-> [DefaultMenu EXCEPT !.slightlyRandomSurfaces = TRUE]],
      \* closed room, slow sound: the delay limit is reached before the walls absorb
      [world |-> "box",
       params |-> [DefaultParams EXCEPT !._soundMsPerMeter = 3000, !._diffusionFanout = 0],
       menu |-> DefaultMenu] }

\* the scenes the first reflector is run in
LegacyScenes ==
    { [world |-> "free", params |-> DefaultParams, menu |-> DefaultMenu],
      [world |-> "wall", params |-> DefaultParams, menu |-> DefaultMenu],
      [world |-> "box", params |-> DefaultParams, menu |-> DefaultMenu] }

\* the room whose surface ratios are set while the reflector runs
TunedRooms ==
    { [world |-> "box",
       params |-> [DefaultParams EXCEPT !._diffusionFanout = 0],
       menu |-> DefaultMenu] }

\* the ratios a setter is called with
RatioCandidates == {0, AttOne \div 2, AttOne}

\* head position, body orientation, head orientation
Poses ==
    { [position |-> Vec(0, 0, 0), orientation |-> 0, headOrientation |-> 0],
      [position |-> Vec(30, 0, 0), orientation |-> 0, headOrientation |-> 0],
      [position |-> Vec(0, 0, 0), orientation |-> 1, headOrientation |-> 1] }

\* audio batches: byte size, the int16 samples in it, sample time, sample rate
Batches ==
    { [size |-> 8, data |-> <<1000, 2000, 3000, 4000>>, sampleTime |-> 0, sampleRate |-> 48000],
      [size |-> 8, data |-> <<0, 0, 0, 0>>, sampleTime |-> 100, sampleRate |-> 48000],
      [size |-> 6, data |-> <<1000, 2000, -3000>>, sampleTime |-> 0, sampleRate |-> 44100],
      [size |-> 6, data |-> <<0, 0, 0>>, sampleTime |-> 0, sampleRate |-> 48000],
      [size |-> 0, data |-> <<>>, sampleTime |-> 0, sampleRate |-> 48000] }

\* what a slot of a QByteArray may hold after resize()
GarbageSamples == {0, 77}

\* the sequences of random draws of one call
RandomTapes ==
    { <<[len |-> 1000, r |-> 1000, sa |-> 1, sb |-> 1],
        [len |-> 990, r |-> 500, sa |-> -1, sb |-> 1]>>,
      <<[len |-> 990, r |-> 500, sa |-> 1, sb |-> -1],
        [len |-> 1000, r |-> 1000, sa |-> 1, sb |-> 1]>> }


\* with plain surfaces and no diffusion no draw is used: one tape stands for all
TapesThatMatter ==
    IF menu.slightlyRandomSurfaces \/ params._diffusionFanout >= 1 THEN RandomTapes
    ELSE {CHOOSE t \in RandomTapes : TRUE}

\* ------------------------------------------------------------------------
\* Oscilloscope (part_000)
\* ------------------------------------------------------------------------
\* render() draws the channels 0, 1 and 2
MAX_CHANNELS == 3

\* MAX_SAMPLES + MAX_COORDS: the 16-bit integers of the one allocation
N_INT16_TO_ALLOC ==
    MAX_SAMPLES_PER_CHANNEL * MAX_CHANNELS + (MAX_SAMPLES_PER_CHANNEL * 2) * MAX_CHANNELS

\* the constructor: the write position of channel ch is _arrWritePos[ch + 1];
\* copies: the memcpy calls of the last addSamples that reached them
Oscilloscope(isEnabled) ==
    [enabled |-> isEnabled, inputPaused |-> FALSE,
     _arrWritePos |-> [c \in 1..MAX_CHANNELS |-> MAX_SAMPLES_PER_CHANNEL * (c - 1)],
     copies |-> <<>>, calls |-> 0, crashed |-> FALSE]

\* addSamples(ch, data, n): n -= n2 is unsigned, so when n2 > n it wraps to
\* 2^32 - (n2 - n); INT_MAX stands for that count, which is past any allocation
addSamples(s, ch, n) ==
    IF ~s.enabled \/ s.inputPaused THEN s
    ELSE LET baseOffs == MAX_SAMPLES_PER_CHANNEL * ch
             endOffs == baseOffs + MAX_SAMPLES_PER_CHANNEL
             writePos == s._arrWritePos[ch + 1]
             passed == writePos + n >= endOffs
             n2 == IF passed THEN writePos + n - endOffs ELSE 0
         IN  [s EXCEPT
                !._arrWritePos[ch + 1] = IF passed THEN baseOffs + n2 ELSE writePos + n,
                !.copies =
                    <<[ch |-> ch, to |-> writePos,
                       count |-> IF n2 > n THEN INT_MAX ELSE n - n2]>>
                      \o (IF n2 > 0 THEN <<[ch |-> ch, to |-> baseOffs, count |-> n2]>>
                          ELSE <<>>)]

\* ------------------------------------------------------------------------
\* Initial state: the reflector as its constructor leaves it
\* ------------------------------------------------------------------------
NoLocals == [withDiffusions |-> FALSE, origin |-> Vec(0, 0, 0), orientation |-> 0,
             listenerPosition |-> Vec(0, 0, 0), acitvePaths |-> 0]

NoBatch == [size |-> 0, data |-> <<>>, sampleTime |-> 0, sampleRate |-> 0]

NoAudio == [batch |-> NoBatch, useNew |-> FALSE]

NoTick == [enabled |-> FALSE, withDiffusions |-> FALSE, origin |-> Vec(0, 0, 0),
           orientation |-> 0, repeat |-> FALSE, stale |-> FALSE, shouldRecalc |-> FALSE,
           ran |-> "none", queries |-> 0, done |-> FALSE, usedDistance |-> <<>>]

ZeroStats ==
    [_maxDelay |-> 0, _minDelay |-> 0, _averageDelay |-> 0, _totalDelay |-> 0,
     _delayCount |-> 0, _maxAttenuation |-> 0, _minAttenuation |-> 0,
     _averageAttenuation |-> 0, _totalAttenuation |-> 0, _attenuationCount |-> 0]

Start(scenarios, scopes) ==
    /\ \E sc \in scenarios :
          /\ world = sc.world
          /\ params = sc.params
          /\ menu = sc.menu
    /\ avatar = [position |-> Vec(0, 0, 0), orientation |-> 0, headOrientation |-> 0]
    /\ _origin = Vec(0, 0, 0)
    /\ _orientation = 0
    /\ _listenerPosition = Vec(0, 0, 0)
    /\ _withDiffusion = FALSE
    /\ _reflections = 0
    /\ _diffusionPathCount = 0
    /\ stats = ZeroStats
    /\ _audioPaths = <<>>
    /\ _audiblePoints = <<>>
    /\ reflectionLists = [n \in SeedNames |-> <<>>]
    /\ chainsTracedFrom = <<>>
    /\ _mutex = "free"
    /\ rpc = "idle"
    /\ rlocal = NoLocals
    /\ apc = "idle"
    /\ alocal = NoAudio
    /\ sink = <<>>
    /\ hitLog = <<>>
    /\ tick = NoTick
    /\ unlockedAccess = {}
    /\ renderTicks = 0
    /\ audioBatches = 0
    /\ avatarMoves = 0
    /\ menuToggles = 0
    /\ tuning = [sets |-> 0, rejected |-> 0]
    /\ scope \in scopes

\* the reflector in an open scene
Init == Start(Scenes, {Oscilloscope(FALSE)})

\* the reflector in a closed room
RoomInit == Start(Rooms, {Oscilloscope(FALSE)})

\* the first reflector in one of its scenes
LegacyInit == Start(LegacyScenes, {Oscilloscope(FALSE)})

\* the reflector in the room whose ratios are set
TunedInit == Start(TunedRooms, {Oscilloscope(FALSE)})

\* ------------------------------------------------------------------------
\* Main thread: menu, avatar, render()
\* ------------------------------------------------------------------------
Settings == <<world, params, scope>>
Cache == <<_origin, _orientation, _listenerPosition, _withDiffusion>>
Traced == <<_audioPaths, _audiblePoints, reflectionLists, chainsTracedFrom>>
AudioSide == <<apc, alocal, sink>>
Counters == <<renderTicks, audioBatches, avatarMoves, menuToggles, tuning>>

\* a pair of ratios the setters take: each in [0,1], their sum at most 1
RatiosAccepted(absorptionRatio, diffusionRatio) ==
    /\ absorptionRatio \in 0..AttOne
    /\ diffusionRatio \in 0..AttOne
    /\ absorptionRatio + diffusionRatio <= AttOne

\* a call of a ratio setter with the ratios as they would be after it:
\* ratios that are not accepted are turned down and nothing changes
SetRatios(absorptionRatio, diffusionRatio) ==
    /\ rpc = "idle"
    /\ tuning.sets < MaxSets
    /\ IF RatiosAccepted(absorptionRatio, diffusionRatio)
       THEN /\ params' = [params EXCEPT !._absorptionRatio = absorptionRatio,
                                        !._diffusionRatio = diffusionRatio]
            /\ tuning' = [tuning EXCEPT !.sets = @ + 1]
       ELSE /\ params' = params
            /\ tuning' = [tuning EXCEPT !.sets = @ + 1, !.rejected = @ + 1]
    /\ UNCHANGED unlockedAccess
    /\ UNCHANGED <<renderTicks, audioBatches, avatarMoves, menuToggles>>
    /\ UNCHANGED <<world, scope, menu, avatar, Cache, _reflections, _diffusionPathCount, stats,
                   Traced, _mutex, rpc, rlocal, AudioSide, hitLog, tick>>

\* setAbsorptionRatio(ratio)
SetAbsorptionRatio ==
    \E ratio \in RatioCandidates : SetRatios(ratio, params._diffusionRatio)

\* setDiffusionRatio(ratio)
SetDiffusionRatio ==
    \E ratio \in RatioCandidates : SetRatios(params._absorptionRatio, ratio)

\* the user checks or unchecks "with diffusions"
ToggleDiffusions ==
    /\ rpc = "idle"
    /\ menuToggles < MaxToggles
    /\ menuToggles' = menuToggles + 1
    /\ menu' = [menu EXCEPT !.withDiffusions = ~@]
    /\ UNCHANGED unlockedAccess
    /\ UNCHANGED <<renderTicks, audioBatches, avatarMoves, tuning>>
    /\ UNCHANGED <<Settings, avatar, Cache, _reflections, _diffusionPathCount, stats,
                   Traced, _mutex, rpc, rlocal, AudioSide, hitLog, tick>>

\* the avatar moves or turns
MoveAvatar ==
    /\ rpc = "idle"
    /\ avatarMoves < MaxMoves
    /\ avatarMoves' = avatarMoves + 1
    /\ \E pose \in Poses : pose # avatar /\ avatar' = pose
    /\ UNCHANGED unlockedAccess
    /\ UNCHANGED <<renderTicks, audioBatches, menuToggles, tuning>>
    /\ UNCHANGED <<Settings, menu, Cache, _reflections, _diffusionPathCount, stats,
                   Traced, _mutex, rpc, rlocal, AudioSide, hitLog, tick>>

\* render() when !_myAvatar || !_audio->getProcessSpatialAudio(): it returns at once
RenderNotProcessing ==
    /\ rpc = "idle"
    /\ renderTicks < MaxTicks
    /\ renderTicks' = renderTicks + 1
    /\ UNCHANGED <<audioBatches, avatarMoves, menuToggles, tuning>>
    /\ tick' = [NoTick EXCEPT !.withDiffusions = menu.withDiffusions,
                              !.origin = avatar.position,
                              !.orientation = SelectedOrientation,
                              !.stale = \/ menu.withDiffusions # _withDiffusion
                                        \/ ~isSimilarPosition(avatar.position, _origin)
                                        \/ ~isSimilarOrientation(SelectedOrientation, _orientation),
                              !.done = TRUE]
    /\ UNCHANGED unlockedAccess
    /\ UNCHANGED <<Settings, menu, avatar, Cache, _reflections, _diffusionPathCount, stats,
                   Traced, _mutex, rpc, rlocal, AudioSide, hitLog>>

\* render() up to and including the computation of shouldRecalc in
\* calculateAllReflections() or newCalculateAllReflections()
RenderBegin ==
    /\ rpc = "idle"
    /\ renderTicks < MaxTicks
    /\ renderTicks' = renderTicks + 1
    /\ UNCHANGED <<audioBatches, avatarMoves, menuToggles, tuning>>
    /\ LET withDiffusions == menu.withDiffusions
           origin == avatar.position
           orientation == SelectedOrientation
           listenerPosition == avatar.position
           shouldRecalc == ShouldRecalc(origin, orientation, listenerPosition, withDiffusions)
       IN  /\ rlocal' = IF shouldRecalc
                        THEN [withDiffusions |-> withDiffusions, origin |-> origin,
                              orientation |-> orientation,
                              listenerPosition |-> listenerPosition,
                              acitvePaths |-> 0]
                        ELSE NoLocals
           /\ rpc' = IF shouldRecalc THEN "lock" ELSE "idle"
           /\ tick' = [enabled |-> TRUE, withDiffusions |-> withDiffusions,
                       origin |-> origin, orientation |-> orientation,
                       repeat |-> /\ tick.enabled
                                  /\ tick.done
                                  /\ tick.origin = origin
                                  /\ tick.orientation = orientation
                                  /\ tick.withDiffusions = withDiffusions,
                       stale |-> \/ withDiffusions # _withDiffusion
                                 \/ ~isSimilarPosition(origin, _origin)
                                 \/ ~isSimilarOrientation(orientation, _orientation),
                       shouldRecalc |-> shouldRecalc,
                       ran |-> "none", queries |-> 0, done |-> ~shouldRecalc,
                       usedDistance |-> <<>>]
    /\ unlockedAccess' = Touch("render", _mutex = "render",
                                {"_reflections", "_origin", "_orientation", "_listenerPosition", "_withDiffusion"})
    /\ UNCHANGED <<Settings, menu, avatar, Cache, _reflections, _diffusionPathCount, stats,
                   Traced, _mutex, AudioSide, hitLog>>

\* QMutexLocker locker(&_mutex) and the lines up to the tracing proper:
\* the cached pose is assigned; analyzePaths() clears and seeds its paths
RenderLock ==
    /\ rpc = "lock"
    /\ MutexAvailable(_mutex)
    /\ _mutex' = "render"
    /\ _origin' = rlocal.origin
    /\ _orientation' = rlocal.orientation
    /\ _listenerPosition' = rlocal.listenerPosition
    /\ _withDiffusion' = rlocal.withDiffusions
    /\ IF rlocal.withDiffusions
       THEN /\ _audioPaths' = InitialPaths(rlocal.origin, rlocal.orientation)
            /\ _audiblePoints' = <<>>
            /\ rlocal' = [rlocal EXCEPT !.acitvePaths = Len(DiffusionSeedOrder)]
            /\ rpc' = "analyzePaths"
            /\ tick' = [tick EXCEPT !.ran = "new"]
       ELSE /\ UNCHANGED <<_audioPaths, _audiblePoints, rlocal>>
            /\ rpc' = "calculate"
            /\ tick' = [tick EXCEPT !.ran = "old"]
    /\ unlockedAccess' = Touch("render", _mutex' = "render",
                                {"_origin", "_orientation", "_listenerPosition", "_withDiffusion"} \cup (IF rlocal.withDiffusions THEN {"_audioPaths", "_audiblePoints"} ELSE {}))
    /\ UNCHANGED Counters
    /\ UNCHANGED <<Settings, menu, avatar, _reflections, _diffusionPathCount, stats,
                   reflectionLists, chainsTracedFrom, AudioSide, hitLog>>

\* the findRayIntersection calls of the 14 chains
RECURSIVE ChainQueriesFrom(_, _)
ChainQueriesFrom(results, i) ==
    IF i > Len(ChainSeedOrder) THEN 0
    ELSE results[ChainSeedOrder[i]].queries + ChainQueriesFrom(results, i + 1)

ChainQueries(results) == ChainQueriesFrom(results, 1)


\* reset(): the statistics it zeroes
ResetAverages(st) ==
    [st EXCEPT !._averageAttenuation = 0, !._maxAttenuation = 0, !._minAttenuation = 0,
               !._averageDelay = 0, !._maxDelay = 0, !._minDelay = 0]

\* the 14 calculateReflections calls of calculateAllReflections(), reset(),
\* and the end of the locker's scope
\* the 14 lists are assigned
StoreChains(results) ==
    /\ reflectionLists' = [n \in SeedNames |-> results[n].reflectionPoints]
    /\ chainsTracedFrom' = _origin
    /\ tick' = [tick EXCEPT !.queries = ChainQueries(results), !.done = TRUE,
                            !.usedDistance = [n \in SeedNames |-> results[n].usedDistance]]

CalculateChains ==
    /\ rpc = "calculate"
    /\ \E tape \in TapesThatMatter :
          StoreChains([n \in SeedNames |->
                          calculateReflections(rlocal.listenerPosition, _origin,
                                               SeedDirection(_orientation, n), tape)])
    /\ _reflections' = TotalChainReflections(reflectionLists')
    /\ _diffusionPathCount' = 0
    /\ stats' = ResetAverages(stats)
    /\ _mutex' = "free"
    /\ rpc' = "idle"
    /\ rlocal' = NoLocals
    /\ unlockedAccess' = Touch("render", _mutex = "render",
                                {"reflectionLists", "_reflections", "_diffusionPathCount", "stats", "_origin", "_orientation"})
    /\ UNCHANGED Counters
    /\ UNCHANGED <<Settings, menu, avatar, Cache, _audioPaths, _audiblePoints,
                   AudioSide, hitLog>>

\* the paths of a step that ask the voxels for an intersection
QueriesOfStep(paths) ==
    Cardinality({i \in 1..Len(paths) :
                    ~paths[i].finalized /\ ~BounceCountTooHigh(paths[i].bounceCount)})

\* one pass of the while loop of analyzePaths(): acitvePaths > 0, and a call of
\* analyzePathsSingleStep() gives its next value. The code sets no limit on the paths it adds: when
\* the step's addSoundSource calls need more AudioPath objects than can be
\* allocated, new throws and the trace never reaches the end of its loop.
\* r: what the step did to the paths it visited and what it added
StoreStep(r) ==
    IF Len(r.paths) + Len(r.added) > MaxPaths
    THEN /\ rpc' = "outOfMemory"
         /\ UNCHANGED <<_audioPaths, _audiblePoints, hitLog, tick, rlocal>>
    ELSE /\ rpc' = rpc
         /\ rlocal' = [rlocal EXCEPT !.acitvePaths = r.active]
         /\ _audioPaths' = r.paths \o r.added
         /\ _audiblePoints' = _audiblePoints \o r.points
         /\ hitLog' = hitLog \o r.log
         /\ tick' = [tick EXCEPT !.queries = @ + QueriesOfStep(_audioPaths)]

AnalyzeStep ==
    /\ rpc = "analyzePaths"
    /\ rlocal.acitvePaths > 0
    /\ \E tape \in TapesThatMatter : StoreStep(analyzePathsSingleStep(_audioPaths, tape))
    /\ unlockedAccess' = Touch("render", _mutex = "render",
                                {"_audioPaths", "_audiblePoints", "_listenerPosition", "_origin"})
    /\ UNCHANGED Counters
    /\ UNCHANGED <<Settings, menu, avatar, Cache, _reflections, _diffusionPathCount, stats,
                   reflectionLists, chainsTracedFrom, _mutex, AudioSide>>

\* the end of the while loop (acitvePaths is 0), the two assignments after
\* it, and the end of the locker's scope
AnalyzeDone ==
    /\ rpc = "analyzePaths"
    /\ rlocal.acitvePaths = 0
    /\ _reflections' = Len(_audiblePoints)
    /\ _diffusionPathCount' = countDiffusionPaths(_audioPaths, _origin)
    /\ _mutex' = "free"
    /\ rpc' = "idle"
    /\ rlocal' = NoLocals
    /\ hitLog' = <<>>
    /\ tick' = [tick EXCEPT !.done = TRUE]
    /\ unlockedAccess' = Touch("render", _mutex = "render",
                                {"_audioPaths", "_audiblePoints", "_reflections", "_diffusionPathCount", "_origin"})
    /\ UNCHANGED Counters
    /\ UNCHANGED <<Settings, menu, avatar, Cache, stats, Traced, AudioSide>>

\* ------------------------------------------------------------------------
\* Audio thread: processInboundAudio()
\* ------------------------------------------------------------------------
\* processInboundAudio() and the first lines of newEchoAudio()/oldEchoAudio(),
\* which come before the QMutexLocker
AudioBegin ==
    /\ apc = "idle"
    /\ audioBatches < MaxBatches
    /\ audioBatches' = audioBatches + 1
    /\ UNCHANGED <<renderTicks, avatarMoves, menuToggles, tuning>>
    /\ \E batch \in Batches :
          alocal' = [batch |-> batch, useNew |-> menu.withDiffusions]
    /\ stats' = ResetStats(stats)
    /\ sink' = <<>>
    /\ apc' = "lock"
    /\ unlockedAccess' = Touch("audio", _mutex = "audio",
                                {"stats"})
    /\ UNCHANGED <<Settings, menu, avatar, Cache, _reflections, _diffusionPathCount,
                   Traced, _mutex, rpc, rlocal, hitLog, tick>>

\* QMutexLocker locker(&_mutex) of newEchoAudio()/oldEchoAudio()
AudioLock ==
    /\ apc = "lock"
    /\ MutexAvailable(_mutex)
    /\ _mutex' = "audio"
    /\ apc' = "inject"
    /\ UNCHANGED unlockedAccess
    /\ UNCHANGED Counters
    /\ UNCHANGED <<Settings, menu, avatar, Cache, _reflections, _diffusionPathCount, stats,
                   Traced, rpc, rlocal, alocal, sink, hitLog, tick>>

\* the rest of newEchoAudio()/oldEchoAudio(): the injections and the statistics
\* subs: the submissions of the batch; reflections: the count stored with them
StoreInjection(subs, reflections) ==
    /\ sink' = subs
    /\ _reflections' = reflections
    /\ stats' = FinishStats(AddToStats(stats, subs), reflections)

AudioInject ==
    /\ apc = "inject"
    /\ \E garbage \in GarbageSamples :
          StoreInjection(IF alocal.useNew
                         THEN InjectAll(_audiblePoints, 1, Len(_audiblePoints), alocal.batch,
                                        garbage)
                         ELSE EchoAll(1, alocal.batch, garbage),
                         IF alocal.useNew THEN Len(_audiblePoints)
                         ELSE TotalChainReflections(reflectionLists))
    /\ _diffusionPathCount' = IF alocal.useNew
                              THEN countDiffusionPaths(_audioPaths, _origin) ELSE 0
    /\ apc' = "submitted"
    /\ unlockedAccess' = Touch("audio", _mutex = "audio",
                                {"_audiblePoints", "_audioPaths", "reflectionLists", "_origin", "stats", "_reflections", "_diffusionPathCount"})
    /\ UNCHANGED Counters
    /\ UNCHANGED <<Settings, menu, avatar, Cache, Traced, _mutex, rpc, rlocal, alocal,
                   hitLog, tick>>

\* newEchoAudio()/oldEchoAudio() return: the locker's scope ends; the mixer has
\* taken the buffers
AudioReturn ==
    /\ apc = "submitted"
    /\ _mutex' = "free"
    /\ apc' = "idle"
    /\ alocal' = NoAudio
    /\ sink' = <<>>
    /\ UNCHANGED unlockedAccess
    /\ UNCHANGED Counters
    /\ UNCHANGED <<Settings, menu, avatar, Cache, _reflections, _diffusionPathCount, stats,
                   Traced, rpc, rlocal, hitLog, tick>>

\* ------------------------------------------------------------------------
\* The first reflector: addSamples()
\* ------------------------------------------------------------------------
\* addSamples() up to its first calculateReflections call
LegacyAddSamples ==
    /\ apc = "idle"
    /\ audioBatches < MaxBatches
    /\ audioBatches' = audioBatches + 1
    /\ UNCHANGED <<renderTicks, avatarMoves, menuToggles, tuning>>
    /\ \E batch \in Batches :
          alocal' = [batch |-> batch, useNew |-> FALSE, origin |-> avatar.position,
                     orientation |-> avatar.orientation, call |-> 1]
    /\ sink' = <<>>
    /\ apc' = "addSamples"
    /\ UNCHANGED unlockedAccess
    /\ UNCHANGED <<Settings, menu, avatar, Cache, _reflections, _diffusionPathCount, stats,
                   Traced, _mutex, rpc, rlocal, hitLog, tick>>

\* one of the 14 calculateReflections calls of addSamples()
LegacyCalculate ==
    /\ apc = "addSamples"
    /\ alocal.call <= Len(LegacySeedOrder)
    /\ sink' = sink \o LegacyCalculateReflections(
                           alocal.origin,
                           SeedDirection(alocal.orientation, LegacySeedOrder[alocal.call]),
                           BOUNCE_COUNT, alocal.batch)
    /\ alocal' = [alocal EXCEPT !.call = @ + 1]
    /\ UNCHANGED unlockedAccess
    /\ UNCHANGED Counters
    /\ UNCHANGED <<Settings, menu, avatar, Cache, _reflections, _diffusionPathCount, stats,
                   Traced, _mutex, rpc, rlocal, apc, hitLog, tick>>

\* addSamples() returns; the mixer has taken the buffers
LegacyAddSamplesReturn ==
    /\ apc = "addSamples"
    /\ alocal.call > Len(LegacySeedOrder)
    /\ apc' = "idle"
    /\ alocal' = NoAudio
    /\ sink' = <<>>
    /\ UNCHANGED unlockedAccess
    /\ UNCHANGED Counters
    /\ UNCHANGED <<Settings, menu, avatar, Cache, _reflections, _diffusionPathCount, stats,
                   Traced, _mutex, rpc, rlocal, hitLog, tick>>

RenderThread ==
    \/ RenderNotProcessing
    \/ RenderBegin
    \/ RenderLock
    \/ CalculateChains
    \/ AnalyzeStep
    \/ AnalyzeDone

AudioThread ==
    \/ AudioBegin
    \/ AudioLock
    \/ AudioInject
    \/ AudioReturn

Next ==
    \/ ToggleDiffusions
    \/ MoveAvatar
    \/ RenderThread
    \/ AudioThread

\* both threads, the user and the avatar, in the open scenes
Spec == Init /\ [][Next]_vars

\* the main thread alone, tracing a closed room with either engine
RoomNext ==
    \/ ToggleDiffusions
    \/ RenderBegin
    \/ RenderLock
    \/ CalculateChains
    \/ AnalyzeStep
    \/ AnalyzeDone

RoomSpec == RoomInit /\ [][RoomNext]_vars

\* the first reflector: the avatar moves, network audio arrives
LegacyNext ==
    \/ MoveAvatar
    \/ LegacyAddSamples
    \/ LegacyCalculate
    \/ LegacyAddSamplesReturn

LegacySpec == LegacyInit /\ [][LegacyNext]_vars

\* the main thread alone, the surface ratios being set between the ticks
TunedNext ==
    \/ SetAbsorptionRatio
    \/ SetDiffusionRatio
    \/ ToggleDiffusions
    \/ RenderBegin
    \/ RenderLock
    \/ CalculateChains
    \/ AnalyzeStep
    \/ AnalyzeDone

TunedSpec == TunedInit /\ [][TunedNext]_vars

\* a call of Oscilloscope::addSamples(). A memcpy that runs past the end of
\* the allocation overwrites the heap: the call may return, or the program may
\* stop there.
ScopeAddSamples ==
    /\ ~scope.crashed
    /\ scope.calls < MaxScopeCalls
    /\ \E ch \in 0..(MAX_CHANNELS - 1), n \in 0..MaxSamplesAdded :
          \E crashes \in
                IF \A k \in 1..Len(addSamples(scope, ch, n).copies) :
                       addSamples(scope, ch, n).copies[k].count
                           <= N_INT16_TO_ALLOC - addSamples(scope, ch, n).copies[k].to
                THEN {FALSE} ELSE BOOLEAN :
             scope' = [addSamples(scope, ch, n) EXCEPT !.calls = @ + 1,
                                                       !.crashed = crashes]
    /\ UNCHANGED <<world, params, menu, avatar, Cache, _reflections, _diffusionPathCount,
                   stats, Traced, _mutex, rpc, rlocal, AudioSide, hitLog, tick,
                   unlockedAccess, Counters>>

\* the oscilloscope alone, constructed enabled or disabled
OscInit ==
    Start({[world |-> "free", params |-> DefaultParams, menu |-> DefaultMenu]},
          {Oscilloscope(e) : e \in BOOLEAN})

OscNext == ScopeAddSamples

OscSpec == OscInit /\ [][OscNext]_vars

\* ------------------------------------------------------------------------
\* Properties
\* ------------------------------------------------------------------------
Tracing == rpc \in {"calculate", "analyzePaths", "outOfMemory"}

Injecting == apc \in {"inject", "submitted"}

\* C1: after a diffusion trace (analyzePaths) has returned, no AudioPath in
\* _audioPaths has a bounceCount greater than ABSOLUTE_MAXIMUM_BOUNCE_COUNT (10).
\* As the claim states it; the rooms refute it.
C1_NoPathBeyondMaxBounces ==
    (rpc = "idle" /\ tick.done /\ tick.ran = "new")
        => \A i \in 1..Len(_audioPaths) :
              _audioPaths[i].bounceCount <= ABSOLUTE_MAXIMUM_BOUNCE_COUNT

\* C2: a trace always terminates under either strategy: the 14 chains are
\* left by returning, and the tick loop of analyzePaths goes on only until it
\* sees no active path and then returns; no pass leaves it any other way.
\* As the claim states it; the scene whose rays all hit at distance 0, where
\* every pass leaves as many active paths as it found, refutes it.
C2_TraceTerminates ==
    [][/\ (rpc = "calculate") => (rpc' \in {"calculate", "idle"})
       /\ (rpc = "analyzePaths") => (rpc' \in {"analyzePaths", "idle"})]_vars

\* C3: there is a fixed ceiling on the paths of one diffusion trace: the number
\* of paths in _audioPaths stays at or below it, and a step whose spawns would
\* exceed it finalizes instead of adding (so no step ever asks for more
\* AudioPath objects than there are). As the claim states it; refuted.
C3_PathCountCapped ==
    /\ Len(_audioPaths) <= MaxPaths
    /\ rpc # "outOfMemory"

\* C4: with the two threads interleaved arbitrarily, a trace's mutation of the
\* stored result never overlaps the injector's iteration over it: each runs
\* wholly while its thread owns _mutex.
C4_TraceNeverOverlapsInjection ==
    /\ ~(Tracing /\ Injecting)
    /\ Tracing => _mutex = "render"
    /\ Injecting => _mutex = "audio"

\* the audio thread waits for the lock while a diffusion trace that has
\* already stored audible points is under way
C4_Witness == apc = "lock" /\ rpc = "analyzePaths" /\ _audiblePoints # <<>>

\* C5: every read and write of the shared state (cached pose, _reflections,
\* statistics) by either thread happens while that thread owns _mutex,
\* the statistics reset of newEchoAudio/oldEchoAudio and the staleness test
\* included. As the claim states it; refuted.
C5_SharedStateUnderMutex == unlockedAccess = {}

\* C6: of two consecutive render ticks with the same pose and the same engine
\* selected, the second neither traces nor queries the voxels, whatever the
\* first found. As the claim states it; free space refutes it.
C6_RepeatedTickTracesOnce ==
    (tick.enabled /\ tick.repeat)
        => /\ ~tick.shouldRecalc
           /\ tick.ran = "none"
           /\ tick.queries = 0

\* what C7 promises of a tick that has ended
StaleTickRetraced ==
    /\ tick.ran = (IF tick.withDiffusions THEN "new" ELSE "old")
    /\ _origin = tick.origin
    /\ _orientation = tick.orientation
    /\ _listenerPosition = tick.origin
    /\ _withDiffusion = tick.withDiffusions

\* C7 (as amended): on any render tick on which the reflector is set up and
\* spatial audio processing is on, and on which the selected engine differs
\* from the cached _withDiffusion or the position or orientation is not similar
\* to the cached one, the selected engine is run, and when the tick ends the
\* cached origin, orientation, listener position and flag are those it used.
C7_StaleTickRetraces ==
    (tick.enabled /\ tick.stale /\ tick.done) => StaleTickRetraced

\* a second tick found the cache stale and has retraced with the diffusion engine
C7_Witness ==
    /\ tick.enabled /\ tick.stale /\ tick.done
    /\ renderTicks = 2
    /\ tick.ran = "new"
    /\ _audiblePoints # <<>>

\* C7 as the claim states it, for any render tick
C7_AnyStaleTickRetraces == (tick.stale /\ tick.done) => StaleTickRetraced

\* C8: in every buffer the injector submits, for a batch of any byte size, the
\* left ear's buffer is 0 at every odd 16-bit index below the sample count
\* passed with it and the right ear's at every even index. As the claim
\* states it; a batch of 6 bytes refutes it.
C8_EarBuffersIsolated ==
    \A i \in 1..Len(sink) :
        \A k \in 1..sink[i].numSamples :
            (IF sink[i].ear = "left" THEN (k - 1) % 2 = 1 ELSE (k - 1) % 2 = 0)
                => sink[i].samples[k] = 0

\* C9: during a diffusion trace the audible points stored so far are exactly
\* the hits so far at which (reflective + total diffusion attenuation) times
\* the attenuation to the listener exceeds 1/256 and the total delay is below
\* MAXIMUM_DELAY_MS, in order, each with the hit's place, delay and attenuation.
C9_AudibleIffGate ==
    (rpc \in {"analyzePaths", "outOfMemory"}) =>
        LET Gate(e) ==
                /\ (e.reflectiveAttenuation + e.totalDiffusionAttenuation)
                      * e.toListenerAttenuation > MINIMUM_ATTENUATION_TO_REFLECT * AttOne
                /\ e.totalDelay < MAXIMUM_DELAY_MS
            passed == SelectSeq(hitLog, Gate)
        IN  /\ \A i \in 1..Len(hitLog) : hitLog[i].emitted <=> Gate(hitLog[i])
            /\ Len(_audiblePoints) = Len(passed)
            /\ \A i \in 1..Len(passed) :
                  /\ _audiblePoints[i].location = passed[i].end
                  /\ _audiblePoints[i].delay = passed[i].currentDelay
                  /\ _audiblePoints[i].attenuation =
                        passed[i].reflectiveAttenuation + passed[i].totalDiffusionAttenuation
                  /\ _audiblePoints[i].attenuation * passed[i].toListenerAttenuation
                        > MINIMUM_ATTENUATION_TO_REFLECT * AttOne

\* a trace in which one hit was loud enough only with its diffused part, and
\* another was too quiet to store
C9_Witness ==
    /\ rpc = "analyzePaths"
    /\ \E i \in 1..Len(hitLog) :
          /\ hitLog[i].emitted
          /\ hitLog[i].reflectiveAttenuation * hitLog[i].toListenerAttenuation
                <= MINIMUM_ATTENUATION_TO_REFLECT * AttOne
    /\ \E j \in 1..Len(hitLog) :
          /\ ~hitLog[j].emitted
          /\ hitLog[j].totalDelay < MAXIMUM_DELAY_MS

\* C10: every audible point a diffusion trace stores has a delay below
\* MAXIMUM_DELAY_MS (20000 ms).
C10_StoredDelayBelowMaximum ==
    \A i \in 1..Len(_audiblePoints) : _audiblePoints[i].delay < MAXIMUM_DELAY_MS

\* a trace that has stored points and has turned a hit away for its delay alone
C10_Witness ==
    /\ _audiblePoints # <<>>
    /\ \E j \in 1..Len(hitLog) :
          /\ ~hitLog[j].emitted
          /\ hitLog[j].totalDelay >= MAXIMUM_DELAY_MS
          /\ (hitLog[j].reflectiveAttenuation + hitLog[j].totalDiffusionAttenuation)
                * hitLog[j].toListenerAttenuation > MINIMUM_ATTENUATION_TO_REFLECT * AttOne

\* every attenuation the reflector holds or multiplies samples by
StoredAttenuationsWithinUnit ==
    /\ \A i \in 1..Len(_audioPaths) :
          /\ _audioPaths[i].startAttenuation \in 0..AttOne
          /\ _audioPaths[i].lastAttenuation \in 0..AttOne
    /\ \A i \in 1..Len(_audiblePoints) : _audiblePoints[i].attenuation \in 0..AttOne

\* C11: every attenuation is in [0,1]: those stored in the audible points and
\* the paths, and those either injector and the first reflector's
\* calculateReflections multiply the samples of an ear by. As the claim states
\* it; the first reflector in a closed room refutes it.
C11_AttenuationsWithinUnit ==
    /\ StoredAttenuationsWithinUnit
    /\ \A i \in 1..Len(sink) : sink[i].attenuation \in 0..AttOne

\* the absorption and diffusion ratios leave a reflective ratio between 0 and 1
RatiosInRange ==
    /\ params._absorptionRatio >= 0
    /\ params._diffusionRatio >= 0
    /\ params._absorptionRatio + params._diffusionRatio <= AttOne

\* hit j of the log is the bounce of the path that follows its bounce at hit i
NextBounceOf(i, j) ==
    /\ i < j
    /\ hitLog[i].continued
    /\ hitLog[j].before.startPoint = hitLog[i].before.startPoint
    /\ hitLog[j].before.startDirection = hitLog[i].before.startDirection
    /\ hitLog[j].before.startDelay = hitLog[i].before.startDelay
    /\ hitLog[j].before.bounceCount = hitLog[i].before.bounceCount + 1
    /\ hitLog[j].before.reflections = Append(hitLog[i].before.reflections, hitLog[i].end)

\* the attenuation of the audible point of a hit
PointAttenuation(e) == e.reflectiveAttenuation + e.totalDiffusionAttenuation

\* C12: with a reflective ratio between 0 and 1, attenuation never increases
\* along the bounces of a path: at every hit of a diffusion trace the path's
\* lastAttenuation after the bounce is at most its value before, the audible
\* points one path emits have non-increasing attenuations in bounce order, and
\* in the chain method the attenuation of bounce n + 1 is at most that of bounce n.
C12_AttenuationNeverIncreases ==
    RatiosInRange =>
        /\ \A i \in 1..Len(hitLog) :
              /\ hitLog[i].reflectiveAttenuation <= hitLog[i].before.lastAttenuation
              /\ \A j \in 1..Len(hitLog) :
                    (NextBounceOf(i, j) /\ hitLog[i].emitted /\ hitLog[j].emitted)
                        => /\ hitLog[j].before.lastAttenuation = hitLog[i].reflectiveAttenuation
                           /\ PointAttenuation(hitLog[j]) <= PointAttenuation(hitLog[i])
        /\ \A i \in 1..Len(_audioPaths) :
              _audioPaths[i].lastAttenuation <= _audioPaths[i].startAttenuation
        /\ \A n \in 0..ABSOLUTE_MAXIMUM_BOUNCE_COUNT :
              getBounceAttenuationCoefficient(n + 1) <= getBounceAttenuationCoefficient(n)

\* a diffusion trace in which a path has bounced twice and its second audible
\* point is quieter than its first
C12_Witness ==
    /\ RatiosInRange
    /\ rpc = "analyzePaths"
    /\ \E i, j \in 1..Len(hitLog) :
          /\ NextBounceOf(i, j)
          /\ hitLog[i].emitted /\ hitLog[j].emitted
          /\ PointAttenuation(hitLog[j]) < PointAttenuation(hitLog[i])
          /\ getBounceAttenuationCoefficient(2) < getBounceAttenuationCoefficient(1)

\* C13: in the chain method the list calculateReflections returns for each of
\* the 14 directions holds at most ABSOLUTE_MAXIMUM_BOUNCE_COUNT (10) points.
C13_ChainListAtMostMaxBounces ==
    \A n \in SeedNames : Len(reflectionLists[n]) <= ABSOLUTE_MAXIMUM_BOUNCE_COUNT

\* a chain trace of the perfectly reflecting room has ended: a chain went on
\* until the bounce count stopped it, with 9 points
C13_Witness ==
    /\ rpc = "idle" /\ tick.done /\ tick.ran = "old"
    /\ \E n \in SeedNames : Len(reflectionLists[n]) = ABSOLUTE_MAXIMUM_BOUNCE_COUNT - 1

\* both methods have traced the room from the cached pose, the diffusion method last
BothMethodsTraced ==
    /\ rpc = "idle" /\ tick.done /\ tick.ran = "new"
    /\ TotalChainReflections(reflectionLists) > 0
    /\ _origin = avatar.position
    /\ Len(_audioPaths) = Len(DiffusionSeedOrder)

\* C14: with no diffusions and plain surfaces, in the same room and pose, the
\* audible points the diffusion method emits for each of the 14 directions are
\* the reflection points the chain method records for it: as many, at the same
\* places, in the same order. As the claim states it; the rooms refute it.
C14_MethodsAgreePerSeed ==
    (BothMethodsTraced /\ params._diffusionFanout = 0 /\ ~menu.slightlyRandomSurfaces)
        => \A i \in 1..Len(DiffusionSeedOrder) :
              _audioPaths[i].reflections = reflectionLists[DiffusionSeedOrder[i]]

\* the room whose walls reflect everything, traced without diffusions
LosslessRoom ==
    /\ world = "box"
    /\ getSurfaceCharacteristics.reflectiveRatio = AttOne
    /\ params._diffusionFanout = 0

\* C18: in the closed room with reflective ratio 1 and no diffusions each of the
\* 14 directions yields exactly 10 points: a chain trace records 140 reflection
\* points, a diffusion trace stores 140 audible points. As the claim states it;
\* the code yields 9 per chain and 11 per path.
C18_TenPointsPerSeed ==
    (LosslessRoom /\ rpc = "idle" /\ tick.done)
        => /\ tick.ran = "old" =>
                /\ \A n \in SeedNames :
                      Len(reflectionLists[n]) = ABSOLUTE_MAXIMUM_BOUNCE_COUNT
                /\ TotalChainReflections(reflectionLists)
                      = Len(ChainSeedOrder) * ABSOLUTE_MAXIMUM_BOUNCE_COUNT
           /\ tick.ran = "new" =>
                /\ \A i \in 1..Len(_audioPaths) :
                      Len(_audioPaths[i].reflections) = ABSOLUTE_MAXIMUM_BOUNCE_COUNT
                /\ Len(_audiblePoints)
                      = Len(DiffusionSeedOrder) * ABSOLUTE_MAXIMUM_BOUNCE_COUNT

\* the batch under injection is a whole number of stereo frames
WellFormedBatch == alocal.batch.size % (NUMBER_OF_CHANNELS * SIZEOF_INT16) = 0

\* C15: a batch whose byte size is not a multiple of 4 is rejected as a whole:
\* no addSpatialAudioToBuffer call is made for it, with either method. As the
\* claim states it; a batch of 6 bytes refutes it.
C15_MalformedBatchRejected ==
    (apc = "submitted" /\ ~WellFormedBatch) => sink = <<>>

\* the sample of stereo frame f (from 0) the right ear is given
RightInput(f) ==
    IF menu.stereoSource
    THEN alocal.batch.data[NUMBER_OF_CHANNELS * f + 2]
    ELSE alocal.batch.data[NUMBER_OF_CHANNELS * f + 1]

\* C19: for a well-formed batch, each contribution's left buffer holds
\* input[2i] * leftAtten at index 2i and its right buffer holds R * rightAtten
\* at index 2i + 1, as 16-bit values, R being input[2i + 1] with a stereo
\* source and input[2i] without; and with the ears not separated the two
\* submissions of a contribution have the same sample time and attenuation.
C19_SamplesScaledPerEar ==
    (apc = "submitted" /\ WellFormedBatch) =>
        /\ Len(sink) % 2 = 0
        /\ \A c \in 1..(Len(sink) \div 2) :
              /\ sink[2 * c - 1].ear = "left"
              /\ sink[2 * c].ear = "right"
              /\ \A f \in 0..(TotalNumberOfStereoSamples(alocal.batch.size) - 1) :
                    /\ sink[2 * c - 1].samples[NUMBER_OF_CHANNELS * f + 1]
                          = ToInt16(Quot(alocal.batch.data[NUMBER_OF_CHANNELS * f + 1]
                                           * sink[2 * c - 1].attenuation, AttOne))
                    /\ sink[2 * c].samples[NUMBER_OF_CHANNELS * f + 2]
                          = ToInt16(Quot(RightInput(f) * sink[2 * c].attenuation, AttOne))
              /\ ~menu.separateEars =>
                    /\ sink[2 * c - 1].sampleTime = sink[2 * c].sampleTime
                    /\ sink[2 * c - 1].attenuation = sink[2 * c].attenuation

\* a well-formed batch that is not silent has been injected for a stored
\* reflection, the ears not separated: both ears were given audible samples
C19_Witness ==
    /\ apc = "submitted" /\ WellFormedBatch
    /\ ~menu.separateEars
    /\ TotalNumberOfStereoSamples(alocal.batch.size) >= 1
    /\ Len(sink) >= 2
    /\ sink[1].samples[1] # 0
    /\ sink[2].samples[2] # 0
    /\ sink[1].sampleTime > alocal.batch.sampleTime

\* C20: when every input sample of the batch is 0, every 16-bit value of every
\* buffer submitted for it is 0, whatever the contributions and the size of the
\* batch. As the claim states it; a silent batch of 6 bytes refutes it.
C20_SilenceInSilenceOut ==
    (apc = "submitted" /\ \A k \in 1..Len(alocal.batch.data) : alocal.batch.data[k] = 0)
        => \A i \in 1..Len(sink) :
              \A k \in 1..sink[i].numSamples : sink[i].samples[k] = 0

OnlyBareSeeds ==
    /\ Len(_audioPaths) \in {0, Len(DiffusionSeedOrder)}
    /\ \A i \in 1..Len(_audioPaths) :
          /\ _audioPaths[i].bounceCount = 0
          /\ _audioPaths[i].reflections = <<>>

AllFinalized == \A i \in 1..Len(_audioPaths) : _audioPaths[i].finalized

NoneFinalized == \A i \in 1..Len(_audioPaths) : ~_audioPaths[i].finalized

\* C17: where no query ever hits, a diffusion trace finalizes all 14 seed
\* paths in its first pass, stores no audible point and adds no path; a chain
\* trace leaves 14 empty lists; a batch that follows is given no submission;
\* and the count of reflections is 0.
C17_FreeSpaceIsSilent ==
    (world = "free") =>
        /\ _audiblePoints = <<>>
        /\ hitLog = <<>>
        /\ OnlyBareSeeds
        /\ \A n \in SeedNames : reflectionLists[n] = <<>>
        /\ sink = <<>>
        /\ _reflections = 0
        /\ rpc = "analyzePaths" =>
              \/ NoneFinalized /\ tick.queries = 0
              \/ AllFinalized /\ tick.queries = Len(DiffusionSeedOrder)
        /\ (rpc = "idle" /\ tick.done /\ tick.ran = "new") =>
              AllFinalized /\ tick.queries = Len(DiffusionSeedOrder)
        /\ (tick.done /\ tick.ran = "old") => tick.queries = Len(ChainSeedOrder)

\* in free space a diffusion trace has ended with its 14 paths finalized and a
\* batch of samples has since gone through the injector
C17_Witness ==
    /\ world = "free"
    /\ tick.done /\ tick.ran = "new"
    /\ Len(_audioPaths) = Len(DiffusionSeedOrder) /\ AllFinalized
    /\ apc = "submitted" /\ alocal.useNew
    /\ alocal.batch.size > 0

\* ------------------------------------------------------------------------
\* The step of the diffusion method at a hit
\* ------------------------------------------------------------------------
\* the reflected part alone is above the minimum at the hit e
ReflectionAboveMinimum(e) ==
    e.reflectiveAttenuation * e.toListenerAttenuation > MINIMUM_ATTENUATION_TO_REFLECT * AttOne

\* the path of the hit e was reflected on: still active, one bounce more, and
\* its last point, direction, delay, attenuation and distance are those of the hit
ReflectedOn(e) ==
    /\ ~e.after.finalized
    /\ e.after.lastPoint = e.end
    /\ e.after.lastDirection # e.before.lastDirection
    /\ e.after.lastDelay = e.currentDelay
    /\ e.after.lastAttenuation = e.reflectiveAttenuation
    /\ e.after.lastDistance = e.pathDistance
    /\ e.after.bounceCount = e.before.bounceCount + 1

\* the path of the hit e was finalized where it stood
FinalizedInPlace(e) ==
    /\ e.after.finalized
    /\ e.after.lastPoint = e.before.lastPoint
    /\ e.after.lastDirection = e.before.lastDirection
    /\ e.after.lastDelay = e.before.lastDelay
    /\ e.after.lastAttenuation = e.before.lastAttenuation
    /\ e.after.lastDistance = e.before.lastDistance
    /\ e.after.bounceCount = e.before.bounceCount

\* C21 as stated: after a hit the path stays active exactly when the reflected
\* part times the attenuation to the listener is above the minimum, whatever
\* the delay; it is then reflected on, and otherwise finalized in place.
C21_ContinuesWhateverTheDelay ==
    \A i \in 1..Len(hitLog) :
        /\ hitLog[i].continued <=> ReflectionAboveMinimum(hitLog[i])
        /\ IF hitLog[i].continued THEN ReflectedOn(hitLog[i])
           ELSE FinalizedInPlace(hitLog[i])

\* C21: after a hit the path stays active exactly when the reflected part times
\* the attenuation to the listener is above the minimum and the total delay is
\* below the limit; it is then reflected on (last point, direction, delay,
\* attenuation, distance updated, one bounce more), and otherwise finalized
\* with those fields unchanged.
C21_ContinuesWithinTheDelay ==
    \A i \in 1..Len(hitLog) :
        /\ hitLog[i].continued <=>
              (ReflectionAboveMinimum(hitLog[i]) /\ hitLog[i].totalDelay < MAXIMUM_DELAY_MS)
        /\ IF hitLog[i].continued THEN ReflectedOn(hitLog[i])
           ELSE FinalizedInPlace(hitLog[i])

\* one trace holds a hit that was reflected on, and a hit whose reflected part
\* was above the minimum while the delay was past the limit
C21_Witness ==
    /\ \E i \in 1..Len(hitLog) : hitLog[i].continued
    /\ \E j \in 1..Len(hitLog) :
          /\ ReflectionAboveMinimum(hitLog[j])
          /\ hitLog[j].totalDelay >= MAXIMUM_DELAY_MS
          /\ ~hitLog[j].continued

\* the diffusion gate of the hit e
DiffusionGate(e) ==
    /\ e.partialDiffusionAttenuation * e.toListenerAttenuation
          > MINIMUM_ATTENUATION_TO_REFLECT * AttOne
    /\ e.totalDelay < MAXIMUM_DELAY_MS

\* c is a path that starts at the hit e with the share of one diffusion
ChildOfHit(c, e) ==
    /\ c.startPoint = e.end /\ c.lastPoint = e.end
    /\ c.startAttenuation = e.partialDiffusionAttenuation
    /\ c.lastAttenuation = e.partialDiffusionAttenuation
    /\ c.startDelay = e.currentDelay /\ c.lastDelay = e.currentDelay
    /\ c.lastDistance = e.pathDistance
    /\ c.startDirection = c.lastDirection
    /\ c.bounceCount = 0
    /\ ~c.finalized
    /\ c.reflections = <<>>

\* the number of paths the hits of the trace have added
SpawnedInTrace ==
    Cardinality({ik \in (1..Len(hitLog)) \X (1..params._diffusionFanout) :
                    ik[2] <= hitLog[ik[1]].spawned})

\* C22: at a hit exactly _diffusionFanout paths are added when the share of one
\* diffusion times the attenuation to the listener is above the minimum and the
\* total delay is below the limit, and none otherwise (none with fanout 0);
\* the share is the path's attenuation times the diffusion ratio over the
\* fanout; each added path starts at the hit point with that share, the delay
\* and the distance of the hit, no bounce, not finalized; the reflected part of
\* the parent is its attenuation times the reflective ratio whether or not
\* paths were added.
C22_FanoutChildrenAtTheGate ==
    /\ \A i \in 1..Len(hitLog) :
          /\ hitLog[i].totalDiffusionAttenuation =
                Quot(hitLog[i].before.lastAttenuation * params._diffusionRatio, AttOne)
          /\ hitLog[i].partialDiffusionAttenuation =
                IF params._diffusionFanout < 1 THEN 0
                ELSE Quot(hitLog[i].totalDiffusionAttenuation, params._diffusionFanout)
          /\ Len(hitLog[i].children) =
                IF DiffusionGate(hitLog[i]) THEN params._diffusionFanout ELSE 0
          /\ \A k \in 1..Len(hitLog[i].children) :
                ChildOfHit(hitLog[i].children[k], hitLog[i])
          /\ hitLog[i].reflectiveAttenuation =
                Quot(hitLog[i].before.lastAttenuation
                       * (AttOne - (params._absorptionRatio + params._diffusionRatio)), AttOne)
          /\ hitLog[i].continued =>
                hitLog[i].after.lastAttenuation = hitLog[i].reflectiveAttenuation
    /\ rpc = "analyzePaths" =>
          Len(_audioPaths) = Len(DiffusionSeedOrder) + SpawnedInTrace

\* one trace holds a hit that added its diffusions and whose path was reflected
\* on, and a hit that added none although the fanout is not 0
C22_Witness ==
    /\ params._diffusionFanout >= 1
    /\ \E i \in 1..Len(hitLog) :
          /\ Len(hitLog[i].children) = params._diffusionFanout
          /\ hitLog[i].continued
    /\ \E j \in 1..Len(hitLog) :
          /\ hitLog[j].totalDiffusionAttenuation > 0
          /\ hitLog[j].children = <<>>

\* the delay a seed path of the diffusion method starts with
SeedDelay == IF menu.preDelay THEN params._preDelay ELSE 0

\* C23: at each hit of the diffusion method the delay advances by the delay of
\* the segment travelled, the same length the distance advances by, so that
\* every stored audible point has delay = seed delay + ms per metre * its
\* path distance.
C23_DelayFollowsPathDistance ==
    /\ \A i \in 1..Len(hitLog) :
          /\ hitLog[i].pathDistance = hitLog[i].before.lastDistance + hitLog[i].segment
          /\ hitLog[i].currentDelay =
                hitLog[i].before.lastDelay + params._soundMsPerMeter * hitLog[i].segment
    /\ \A k \in 1..Len(_audiblePoints) :
          _audiblePoints[k].delay =
              SeedDelay + params._soundMsPerMeter * _audiblePoints[k].distance

\* the length of the chain from origin through the first k of the points
RECURSIVE LengthOfChain(_, _, _)
LengthOfChain(origin, points, k) ==
    IF k = 0 THEN 0
    ELSE LengthOfChain(origin, points, k - 1)
           + Distance(IF k = 1 THEN origin ELSE points[k - 1], points[k])

\* C24: at bounce k of a chain the delay and the attenuation of the gate are
\* computed from the distance from the hit point to the ear plus the length of
\* all k segments travelled since the seed.
C24_ChainGateUsesWholePath ==
    (tick.ran = "old" /\ tick.done) =>
        \A n \in SeedNames : \A k \in 1..Len(reflectionLists[n]) :
            tick.usedDistance[n][k] =
                Distance(reflectionLists[n][k], _listenerPosition)
                  + LengthOfChain(_origin, reflectionLists[n], k)

\* delayMsecs * sampleRate / MSECS_PER_SECOND rounded to the nearest integer
\* (the product is formed in two parts, as in DelayInSamples)
NearestDelayInSamples(delayMsecs, sampleRate) ==
    (delayMsecs \div MSECS_PER_SECOND) * (sampleRate \div DelayPerMs)
      + ((delayMsecs % MSECS_PER_SECOND) * (sampleRate \div DelayPerMs)
           + MSECS_PER_SECOND \div 2) \div MSECS_PER_SECOND

\* C25: for each ear of each contribution the sample time handed to
\* addSpatialAudioToBuffer is the batch's sample time plus the ear's delay in
\* samples, delay * sample rate / 1000 rounded to the nearest integer.
C25_AnchorRoundsToNearest ==
    (apc = "submitted") =>
        \A k \in 1..Len(sink) :
            sink[k].sampleTime =
                alocal.batch.sampleTime
                  + NearestDelayInSamples(sink[k].delayMsecs, alocal.batch.sampleRate)

\* C26: when analyzePaths leaves its loop, and from then on, every path of
\* _audioPaths is finalized, the diffusions added during the trace included.
C26_TraceEndsWithAllFinalized ==
    (rpc \notin {"analyzePaths", "outOfMemory"} \/ (rpc = "analyzePaths" /\ rlocal.acitvePaths = 0))
        => AllFinalized

\* a diffusion trace that added paths has left its loop
C26_Witness ==
    /\ rpc = "analyzePaths" /\ rlocal.acitvePaths = 0
    /\ Len(_audioPaths) > Len(DiffusionSeedOrder)
    /\ \E i \in 1..Len(hitLog) : hitLog[i].spawned > 0
    /\ \E j \in 1..Len(_audioPaths) :
          _audioPaths[j].startPoint # _origin /\ _audioPaths[j].finalized

\* C27: whenever oldEchoAudio injects chain lists that hold a reflection, the
\* lists were traced from the _origin it hands to echoReflections.
C27_ChainsMatchCachedOrigin ==
    (apc = "inject" /\ ~alocal.useNew /\ TotalChainReflections(reflectionLists) > 0)
        => chainsTracedFrom = _origin

\* the number of points on the reflections lists of the paths
PointsOnPaths(paths) ==
    Cardinality(UNION {{<<i, k>> : k \in 1..Len(paths[i].reflections)} :
                          i \in 1..Len(paths)})

\* C28: the stored audible points are as many as the points on the reflections
\* lists of all the paths of _audioPaths, and when a diffusion trace returns
\* _reflections is that number.
C28_PointsMatchPathReflections ==
    [][/\ Len(_audiblePoints') = PointsOnPaths(_audioPaths')
       /\ (rpc = "analyzePaths" /\ rpc' = "idle") =>
             _reflections' = PointsOnPaths(_audioPaths')]_vars

\* a diffusion trace has returned with audible points, some of them emitted by
\* a path at its last hit and some by paths added during the trace
C28_Witness ==
    /\ rpc = "idle" /\ tick.ran = "new" /\ tick.done
    /\ _reflections = Len(_audiblePoints)
    /\ Len(_audiblePoints) > Len(DiffusionSeedOrder)
    /\ \E i \in 1..Len(_audioPaths) :
          /\ _audioPaths[i].startPoint # _origin
          /\ _audioPaths[i].reflections # <<>>

\* C29: when a diffusion trace returns, _diffusionPathCount is the number of
\* paths added during the trace, the size of _audioPaths less the 14 seeds.
C29_DiffusionCountIsAddedPaths ==
    [][(rpc = "analyzePaths" /\ rpc' = "idle") =>
          _diffusionPathCount' = Len(_audioPaths') - Len(DiffusionSeedOrder)]_vars

\* ------------------------------------------------------------------------
\* The oscilloscope's sample buffer
\* ------------------------------------------------------------------------
\* the offsets from..from + count - 1 lie in the region of channel ch
InRegion(ch, from, count) ==
    /\ from >= MAX_SAMPLES_PER_CHANNEL * ch
    /\ count <= MAX_SAMPLES_PER_CHANNEL * (ch + 1) - from

\* C30: after any calls of addSamples the write position of every channel is
\* inside the channel's region and the copies of the last call wrote only
\* inside the region of its channel; a disabled oscilloscope is left as it
\* was constructed.
C30_WritesStayInRegion ==
    /\ \A ch \in 0..(MAX_CHANNELS - 1) : InRegion(ch, scope._arrWritePos[ch + 1], 1)
    /\ \A k \in 1..Len(scope.copies) :
          InRegion(scope.copies[k].ch, scope.copies[k].to, scope.copies[k].count)
    /\ ~scope.enabled =>
          /\ scope._arrWritePos = Oscilloscope(FALSE)._arrWritePos
          /\ scope.copies = <<>>

====
